---- MODULE Spec2Model ----
(***************************************************************************)
(* Model of the trip optimizer (server/utils/optimizer.js) and of the      *)
(* graph builder (server/utils/graph.js).                                  *)
(*                                                                         *)
(* Numbers.  JavaScript doubles are modelled by exact integers:            *)
(*   - a time is a number of 1/30 hour, so that with the average speed of  *)
(*     30 km/h a travel time in these units equals the distance in km;     *)
(*   - a rating is a number of tenths (4.5 is 45);                         *)
(*   - a weight is a number of tenths (0.4 is 4);                          *)
(*   - an importance is a number of hundredths;                            *)
(*   - a composite score is a fraction <<numerator, denominator>> with a   *)
(*     positive denominator, compared by cross multiplication.             *)
(* Locations lie on one meridian and lat is the arc length in km north of  *)
(* a reference point, so the haversine distance of two valid locations is  *)
(* the absolute difference of their lat values.                            *)
(***************************************************************************)
EXTENDS Integers, Sequences, FiniteSets, TLC

\* ------------------------------------------------------------------------
\* Bounds of the model
\* ------------------------------------------------------------------------
MaxPOIs == 3

MaxDays == 3

MaxCalls == 2

MaxElements == 2

MaxWordLen == 2

MaxPlaces == 2

\* ------------------------------------------------------------------------
\* JavaScript values
\* ------------------------------------------------------------------------
\* an absent field (undefined) or null
Undefined == 0 - 1

\* no node (null)
Null == "null"

\* an absent text field (undefined)
NoText == "<undefined>"

\* text || ''
TextOrEmpty(text) == IF text = NoText THEN "" ELSE text

\* JavaScript truthiness of a number-or-undefined value
Truthy(x) == x # Undefined /\ x # 0

\* a || b
OrElse(a, b) == IF Truthy(a) THEN a ELSE b

Abs(x) == IF x < 0 THEN 0 - x ELSE x

Min(a, b) == IF a < b THEN a ELSE b

RECURSIVE SumSeq(_)
SumSeq(s) == IF s = <<>> THEN 0 ELSE Head(s) + SumSeq(Tail(s))

RECURSIVE Flatten(_)
Flatten(ss) == IF ss = <<>> THEN <<>> ELSE Head(ss) \o Flatten(Tail(ss))

Range(s) == { s[i] : i \in 1..Len(s) }

\* the sequence s without its element at position k
RemoveAt(s, k) == [ i \in 1..(Len(s) - 1) |-> IF i < k THEN s[i] ELSE s[i + 1] ]

\* a/b > c/d for fractions with positive denominators
FracGreater(x, y) == x[1] * y[2] > y[1] * x[2]

\* ------------------------------------------------------------------------
\* Trip types
\* ------------------------------------------------------------------------
KnownTripTypes == { "Historical", "Religious", "Nature", "Adventure", "Romantic" }

\* the trip types a call is made with: the five known ones and one
\* unrecognized value
TripTypes == KnownTripTypes \cup { "Leisure" }

\* the keyword table of calculatePOIRelevance
keywords ==
  [ Historical |-> << "historic", "ancient", "heritage", "museum", "monument",
                      "palace", "fort", "ruins", "archaeology" >>,
    Religious  |-> << "temple", "church", "mosque", "shrine", "holy", "sacred",
                      "worship", "pilgrimage", "spiritual" >>,
    Nature     |-> << "park", "garden", "mountain", "lake", "river", "forest",
                      "beach", "waterfall", "wildlife", "scenic" >>,
    Adventure  |-> << "trek", "hike", "climb", "adventure", "sport", "rafting",
                      "camping", "zipline", "safari", "outdoor" >>,
    Romantic   |-> << "sunset", "view", "romantic", "couple", "garden", "scenic",
                      "restaurant", "retreat", "peaceful" >> ]

\* mutant: an unknown trip type has no keywords
TypeKeywordsNoFallback(tripType) ==
  IF tripType \in DOMAIN keywords THEN keywords[tripType] ELSE <<>>

\* keywords[tripType] || keywords['Historical']
TypeKeywords(tripType) ==
  IF tripType \in DOMAIN keywords THEN keywords[tripType] ELSE keywords["Historical"]

\* ------------------------------------------------------------------------
\* Texts.  A name or a description is one of the texts below; Includes is
\* String.prototype.includes on the lower-cased text, tabulated for every
\* keyword of the table: LowerIncludes[t] is the set of keywords that are
\* substrings of t.toLowerCase().
\* ------------------------------------------------------------------------
LowerIncludes ==
  [ t \in { "", "Historic Museum", "Adventure Park", "Sacred Temple",
            "Romantic Garden", "Nature Reserve", "City Fort", "Sunset Cafe",
            "Lake View",
            "A museum showcasing ancient artifacts and heritage items",
            "Outdoor adventure activities and hiking trails",
            "Ancient temple with religious significance",
            "Beautiful garden with scenic views and peaceful atmosphere",
            "Protected area with diverse wildlife and natural beauty" } |->
    CASE t = "Historic Museum" -> { "historic", "museum" }
      [] t = "Adventure Park" -> { "adventure", "park" }
      [] t = "Sacred Temple" -> { "sacred", "temple" }
      [] t = "Romantic Garden" -> { "romantic", "garden" }
      [] t = "City Fort" -> { "fort" }
      [] t = "Sunset Cafe" -> { "sunset" }
      [] t = "Lake View" -> { "lake", "view" }
      [] t = "A museum showcasing ancient artifacts and heritage items" ->
           { "museum", "ancient", "heritage" }
      [] t = "Outdoor adventure activities and hiking trails" ->
           { "outdoor", "adventure" }
      [] t = "Ancient temple with religious significance" ->
           { "ancient", "temple" }
      [] t = "Beautiful garden with scenic views and peaceful atmosphere" ->
           { "garden", "scenic", "view", "peaceful" }
      [] t = "Protected area with diverse wildlife and natural beauty" ->
           { "wildlife" }
      [] OTHER -> {} ]

\* name.includes(keyword) after (poi.name || '').toLowerCase()
Includes(text, keyword) == keyword \in LowerIncludes[TextOrEmpty(text)]

\* ------------------------------------------------------------------------
\* calculatePOIRelevance
\* ------------------------------------------------------------------------
RECURSIVE KeywordScore(_, _, _)
KeywordScore(name, description, kws) ==
  IF kws = <<>> THEN 0
  ELSE (IF Includes(name, Head(kws)) THEN 2 ELSE 0)
       + (IF Includes(description, Head(kws)) THEN 1 ELSE 0)
       + KeywordScore(name, description, Tail(kws))

\* mutant: the score starts at 0
calculatePOIRelevanceFromZero(poi, tripType) ==
  KeywordScore(poi.name, poi.description, TypeKeywords(tripType))

calculatePOIRelevance(poi, tripType) ==
  1 + KeywordScore(poi.name, poi.description, TypeKeywords(tripType))

\* poi.relevanceScore || calculatePOIRelevance(poi, tripType)
RelevanceOf(poi, tripType) ==
  IF Truthy(poi.relevanceScore) THEN poi.relevanceScore
  ELSE calculatePOIRelevance(poi, tripType)

\* parseFloat(poi.rating) || 4.0, in tenths
RatingOf(poi) == OrElse(poi.rating, 40)

\* ------------------------------------------------------------------------
\* getTripTypeWeights, in tenths
\* ------------------------------------------------------------------------
\* mutant: the default branch returns the Historical weights
getTripTypeWeightsDefaultsToHistorical(tripType) ==
  CASE tripType = "Religious"  -> [ travelTime |-> 3, relevance |-> 6, rating |-> 1 ]
    [] tripType = "Nature"     -> [ travelTime |-> 5, relevance |-> 3, rating |-> 2 ]
    [] tripType = "Adventure"  -> [ travelTime |-> 3, relevance |-> 5, rating |-> 2 ]
    [] tripType = "Romantic"   -> [ travelTime |-> 4, relevance |-> 3, rating |-> 3 ]
    [] OTHER                   -> [ travelTime |-> 4, relevance |-> 5, rating |-> 1 ]

getTripTypeWeights(tripType) ==
  CASE tripType = "Historical" -> [ travelTime |-> 4, relevance |-> 5, rating |-> 1 ]
    [] tripType = "Religious"  -> [ travelTime |-> 3, relevance |-> 6, rating |-> 1 ]
    [] tripType = "Nature"     -> [ travelTime |-> 5, relevance |-> 3, rating |-> 2 ]
    [] tripType = "Adventure"  -> [ travelTime |-> 3, relevance |-> 5, rating |-> 2 ]
    [] tripType = "Romantic"   -> [ travelTime |-> 4, relevance |-> 3, rating |-> 3 ]
    [] OTHER                   -> [ travelTime |-> 6, relevance |-> 3, rating |-> 1 ]

\* ------------------------------------------------------------------------
\* Points of interest.  The first five are the sample POIs of
\* tests/optimizerTest.js; poi_6, poi_7 and poi_8 have the shape of the
\* records the POI fetch produces (a precomputed relevanceScore, possibly 0,
\* null coordinates) together with a rating of 0, a missing rating and a
\* visit duration of 0.  lat is in km of arc, rating in tenths, visitDuration in
\* time units.  Annotation fields are absent on a fresh record.
\* ------------------------------------------------------------------------
\* the average speed of calculateTravelTime, in km/h
speedFactor == 30

\* time units per hour: a time unit is the time one km takes
UnitsPerHour == speedFactor

POI(id, name, description, lat, rating, visitDuration, relevanceScore) ==
  [ id |-> id, name |-> name, description |-> description,
    location |-> [ lat |-> lat, lng |-> 0 ],
    rating |-> rating, visitDuration |-> visitDuration,
    relevanceScore |-> relevanceScore,
    travelTimeToNext |-> Undefined, nextNodeScore |-> <<>>,
    importance |-> Undefined, timeRequired |-> Undefined ]

samplePOIs ==
  { POI("poi1", "Historic Museum",
        "A museum showcasing ancient artifacts and heritage items",
        0, 45, 60, Undefined),
    POI("poi2", "Adventure Park",
        "Outdoor adventure activities and hiking trails",
        9, 42, 90, Undefined),
    POI("poi3", "Sacred Temple",
        "Ancient temple with religious significance",
        4, 48, 45, Undefined),
    POI("poi4", "Romantic Garden",
        "Beautiful garden with scenic views and peaceful atmosphere",
        2, 43, 30, Undefined),
    POI("poi5", "Nature Reserve",
        "Protected area with diverse wildlife and natural beauty",
        30, 46, 75, Undefined),
    POI("poi_6", "City Fort", "", 25, 0, 60, 5),
    POI("poi_7", "Sunset Cafe", NoText, Undefined, Undefined, 0, 0),
    POI("poi_8", "Lake View", "", Undefined, 35, 30, 2) }

\* the sequences of exactly n POIs with pairwise distinct ids
RECURSIVE POIListsOfLen(_)
POIListsOfLen(n) ==
  IF n = 0 THEN { <<>> }
  ELSE UNION { { Append(l, p) : p \in { q \in samplePOIs :
                                         \A i \in 1..Len(l) : l[i].id # q.id } } :
               l \in POIListsOfLen(n - 1) }

\* the sequences of at most n POIs with pairwise distinct ids
POILists(n) == UNION { POIListsOfLen(k) : k \in 0..n }

\* ------------------------------------------------------------------------
\* graph.js: calculateDistance, calculateTravelTime, buildGraph
\* ------------------------------------------------------------------------
ValidPoint(point) == point.lat # Undefined /\ point.lng # Undefined

\* mutant: only the first point is checked before the distance is computed
calculateDistanceChecksFirstPoint(point1, point2) ==
  IF ~ValidPoint(point1) THEN 1
  ELSE Abs(point2.lat - point1.lat)

\* mutant: the distance is computed without the coordinate check
calculateDistanceNoFallback(point1, point2) == Abs(point2.lat - point1.lat)

calculateDistance(point1, point2) ==
  IF ~ValidPoint(point1) \/ ~ValidPoint(point2) THEN 1
  ELSE Abs(point2.lat - point1.lat)

calculateTravelTime(point1, point2) ==
  (calculateDistance(point1, point2) * UnitsPerHour) \div speedFactor

RECURSIVE EdgesFrom(_, _)
EdgesFrom(poi1, pois) ==
  IF pois = <<>> THEN <<>>
  ELSE LET poi2 == Head(pois)
           rest == EdgesFrom(poi1, Tail(pois))
       IN  IF poi1.id # poi2.id
           THEN << [ nodeId |-> poi2.id,
                     distance |-> calculateDistance(poi1.location, poi2.location),
                     travelTime |-> calculateTravelTime(poi1.location, poi2.location) ] >>
                \o rest
           ELSE rest

buildGraph(pois) ==
  [ nodes |-> [ id \in { pois[i].id : i \in 1..Len(pois) } |->
                  (CHOOSE p \in Range(pois) : p.id = id) ],
    order |-> [ i \in 1..Len(pois) |-> pois[i].id ],
    adjacencyList |-> [ id \in { pois[i].id : i \in 1..Len(pois) } |->
                          EdgesFrom(CHOOSE p \in Range(pois) : p.id = id, pois) ] ]

\* ------------------------------------------------------------------------
\* optimizer.js: findBestNextNode
\* ------------------------------------------------------------------------
\* the composite score of a neighbour, as a fraction
NextScore(weights, edge, poi, tripType) ==
  LET tt == UnitsPerHour + edge.travelTime
  IN  << weights.travelTime * UnitsPerHour * 50
           + weights.relevance * RelevanceOf(poi, tripType) * 5 * tt
           + weights.rating * RatingOf(poi) * tt,
         500 * tt >>

\* one iteration of the forEach over the adjacency list: best is the
\* record {nextNode, travelTime, score} so far, nextNode = Null standing for
\* the initial bestScore of -Infinity
\* mutant: bestTravelTime is set for the first candidate only
BetterNeighbourKeepsTravelTime(best, edge, nodes, visited, tripType) ==
  IF edge.nodeId \in visited THEN best
  ELSE LET score == NextScore(getTripTypeWeights(tripType), edge,
                              nodes[edge.nodeId], tripType)
       IN  IF best.nextNode = Null
           THEN [ nextNode |-> edge.nodeId, travelTime |-> edge.travelTime,
                  score |-> score ]
           ELSE IF FracGreater(score, best.score)
           THEN [ nextNode |-> edge.nodeId, travelTime |-> best.travelTime,
                  score |-> score ]
           ELSE best

BetterNeighbour(best, edge, nodes, visited, tripType) ==
  IF edge.nodeId \in visited THEN best
  ELSE LET score == NextScore(getTripTypeWeights(tripType), edge,
                              nodes[edge.nodeId], tripType)
       IN  IF best.nextNode = Null \/ FracGreater(score, best.score)
           THEN [ nextNode |-> edge.nodeId, travelTime |-> edge.travelTime,
                  score |-> score ]
           ELSE best

RECURSIVE ScanNeighbours(_, _, _, _, _)
ScanNeighbours(best, edges, nodes, visited, tripType) ==
  IF edges = <<>> THEN best
  ELSE ScanNeighbours(BetterNeighbour(best, Head(edges), nodes, visited, tripType),
                      Tail(edges), nodes, visited, tripType)

\* mutant: the visited set is not consulted, only the current node is skipped
findBestNextNodeRevisits(graph, currentNode, visited, tripType) ==
  ScanNeighbours([ nextNode |-> Null, travelTime |-> 0, score |-> <<>> ],
                 graph.adjacencyList[currentNode], graph.nodes, { currentNode },
                 tripType)

findBestNextNode(graph, currentNode, visited, tripType) ==
  ScanNeighbours([ nextNode |-> Null, travelTime |-> 0, score |-> <<>> ],
                 graph.adjacencyList[currentNode], graph.nodes, visited, tripType)

\* ------------------------------------------------------------------------
\* The state of one optimizeTrip call.  The step operators below map a
\* state record to the state record after the step; the actions of the
\* specification apply them to the variables.
\*   graph              the graph passed in: nodes (the POI records, which
\*                      the call annotates), order (Object.keys order) and
\*                      adjacencyList
\*   days, tripType     the other two arguments
\*   organizeTripType   the tripType parameter of organizeByDays
\*   pc                 the position in the code
\*   bestStartNode, tour, visited, currentNode            (ids)
\*   totalTime, dailyItineraries, currentDay, currentDayTime, i
\*                      the locals of organizeByDays (buckets hold ids)
\*   dayTimes, balanceTotal, k
\*                      the locals of balanceUnevenDays (k is its loop index)
\*   result, error      what the call returned or threw
\*   merges, moves      history: the pairs of bucket indices merged by
\*                      balanceDays and the moves {poi, from, to} made by
\*                      balanceUnevenDays during this call
\* ------------------------------------------------------------------------
NoResult == [ kind |-> "none" ]

Locals ==
  [ organizeTripType |-> "Historical", bestStartNode |-> Null, tour |-> <<>>,
    visited |-> {}, currentNode |-> Null, totalTime |-> 0,
    dailyItineraries |-> <<>>, currentDay |-> <<>>, currentDayTime |-> 0,
    i |-> 0, dayTimes |-> <<>>, balanceTotal |-> 0, k |-> 0,
    merges |-> <<>>, moves |-> <<>>,
    result |-> NoResult, error |-> "none" ]

\* s with the fields of r overwritten
Overwrite(s, r) ==
  [ f \in DOMAIN s |-> IF f \in DOMAIN r THEN r[f] ELSE s[f] ]

\* ------------------------------------------------------------------------
\* optimizeTrip, lines 569-604, and the head of nearestNeighborTour,
\* lines 266-275
\* ------------------------------------------------------------------------
\* the start score of a node, as a fraction
\* mutant: the relevance weight and the rating weight are exchanged
StartScoreWeightsSwapped(node, tripType) ==
  LET weights == getTripTypeWeights(tripType)
  IN  << weights.rating * RelevanceOf(node, tripType) * 10
           + weights.relevance * RatingOf(node),
         500 >>

StartScore(node, tripType) ==
  LET weights == getTripTypeWeights(tripType)
  IN  << weights.relevance * RelevanceOf(node, tripType) * 10
           + weights.rating * RatingOf(node),
         500 >>

\* the for loop over the nodes: best is {node, score}
RECURSIVE ScanStart(_, _, _, _)
ScanStart(best, ids, nodes, tripType) ==
  IF ids = <<>> THEN best
  ELSE LET score == StartScore(nodes[Head(ids)], tripType)
       IN  ScanStart(IF FracGreater(score, best.score)
                     THEN [ node |-> Head(ids), score |-> score ]
                     ELSE best,
                     Tail(ids), nodes, tripType)

BestStartNode(graph, tripType) ==
  ScanStart([ node |-> graph.order[1], score |-> <<0, 1>> ],
            graph.order, graph.nodes, tripType).node

\* Array(days).fill([])
EmptyItinerary(days) == [ d \in 1..days |-> <<>> ]

\* nearestNeighborTour up to its loop, lines 266-275, on a graph with at
\* least one node; ids are non-empty strings, so startNodeId is the start
nearestNeighborTourEntry(s, startNodeId) ==
  [ s EXCEPT !.visited = { startNodeId },
             !.tour = << startNodeId >>,
             !.currentNode = startNodeId,
             !.pc = IF 1 < Len(s.graph.order) THEN "tour" ELSE "organize" ]

optimizeTripEntry(s, days, tripType) ==
  LET c == Overwrite(Overwrite(s, Locals), [ days |-> days, tripType |-> tripType ])
  IN  IF Len(c.graph.order) = 0
      THEN IF days < 0
           THEN [ c EXCEPT !.pc = "threw", !.error = "RangeError" ]
           ELSE [ c EXCEPT !.pc = "done",
                           !.result = [ kind |-> "array",
                                        value |-> EmptyItinerary(days) ] ]
      ELSE LET start == BestStartNode(c.graph, tripType)
           IN  nearestNeighborTourEntry([ c EXCEPT !.bestStartNode = start ], start)

\* ------------------------------------------------------------------------
\* nearestNeighborTour, one iteration of the while loop, lines 281-301
\* ------------------------------------------------------------------------
\* mutant: the travel time is added to the value the record already carries
nearestNeighborTourAccumulates(s) ==
  LET best == findBestNextNode(s.graph, s.currentNode, s.visited, s.tripType)
      last == s.tour[Len(s.tour)]
  IN  IF best.nextNode # Null
      THEN [ s EXCEPT !.graph.nodes[last].travelTimeToNext =
                         OrElse(@, 0) + best.travelTime,
                      !.graph.nodes[last].nextNodeScore = best.score,
                      !.visited = @ \cup { best.nextNode },
                      !.tour = Append(@, best.nextNode),
                      !.currentNode = best.nextNode,
                      !.pc = IF Cardinality(s.visited) + 1 < Len(s.graph.order)
                             THEN "tour" ELSE "organize" ]
      ELSE [ s EXCEPT !.pc = "organize" ]

\* mutant: the loop stops one node early
nearestNeighborTourStopsEarly(s) ==
  LET best == findBestNextNode(s.graph, s.currentNode, s.visited, s.tripType)
      last == s.tour[Len(s.tour)]
  IN  IF best.nextNode # Null /\ Cardinality(s.visited) + 1 < Len(s.graph.order)
      THEN [ s EXCEPT !.graph.nodes[last].travelTimeToNext = best.travelTime,
                      !.graph.nodes[last].nextNodeScore = best.score,
                      !.visited = @ \cup { best.nextNode },
                      !.tour = Append(@, best.nextNode),
                      !.currentNode = best.nextNode,
                      !.pc = IF Cardinality(s.visited) + 2 < Len(s.graph.order)
                             THEN "tour" ELSE "organize" ]
      ELSE [ s EXCEPT !.pc = "organize" ]

nearestNeighborTour(s) ==
  LET best == findBestNextNode(s.graph, s.currentNode, s.visited, s.tripType)
      last == s.tour[Len(s.tour)]
  IN  IF best.nextNode # Null
      THEN [ s EXCEPT !.graph.nodes[last].travelTimeToNext = best.travelTime,
                      !.graph.nodes[last].nextNodeScore = best.score,
                      !.visited = @ \cup { best.nextNode },
                      !.tour = Append(@, best.nextNode),
                      !.currentNode = best.nextNode,
                      !.pc = IF Cardinality(s.visited) + 1 < Len(s.graph.order)
                             THEN "tour" ELSE "organize" ]
      ELSE [ s EXCEPT !.pc = "organize" ]

\* ------------------------------------------------------------------------
\* organizeByDays
\* ------------------------------------------------------------------------
\* calculateTotalTime, lines 241-255
RECURSIVE calculateTotalTime(_, _)
calculateTotalTime(nodes, itinerary) ==
  IF itinerary = <<>> THEN 0
  ELSE nodes[Head(itinerary)].visitDuration
       + (IF Len(itinerary) > 1 /\ Truthy(nodes[Head(itinerary)].travelTimeToNext)
          THEN nodes[Head(itinerary)].travelTimeToNext ELSE 0)
       + calculateTotalTime(nodes, Tail(itinerary))

\* poi.visitDuration + (poi.travelTimeToNext || 0)
PoiTime(poi) == poi.visitDuration + OrElse(poi.travelTimeToNext, 0)

\* (relevanceScore * 0.7) + (rating * 0.3), in hundredths
Importance(poi, tripType) == 70 * RelevanceOf(poi, tripType) + 3 * RatingOf(poi)

\* Math.min(1.3, 1 + importance / 10), in thousandths
ImportanceFactor(importance) == Min(1300, 1000 + importance)

\* currentDayTime + poiTime > (totalTime / days) * importanceFactor
ExceedsBudget(time, totalTime, days, factor) ==
  IF days > 0 THEN time * days * 1000 > totalTime * factor
  ELSE time * days * 1000 < totalTime * factor

\* lines 374-391
organizeByDaysEntry(s, tripType) ==
  IF s.tour = <<>>
  THEN [ s EXCEPT !.organizeTripType = tripType,
                  !.dailyItineraries = EmptyItinerary(s.days),
                  !.pc = "return" ]
  ELSE
  [ s EXCEPT !.organizeTripType = tripType,
             !.totalTime = calculateTotalTime(s.graph.nodes, s.tour),
             !.dailyItineraries = <<>>,
             !.currentDay = <<>>,
             !.currentDayTime = 0,
             !.i = 1,
             !.pc = "walk" ]

\* mutant: a new day is started also when the current day is empty
organizeByDaysClosesEmptyDay(s) ==
  LET id == s.tour[s.i]
      poi == s.graph.nodes[id]
      poiTime == PoiTime(poi)
      importance == Importance(poi, s.organizeTripType)
      newDay == ExceedsBudget(s.currentDayTime + poiTime, s.totalTime, s.days,
                              ImportanceFactor(importance))
      closed == IF newDay THEN Append(s.dailyItineraries, s.currentDay)
                ELSE s.dailyItineraries
      day == IF newDay THEN << id >> ELSE Append(s.currentDay, id)
      last == s.i = Len(s.tour)
  IN  [ s EXCEPT !.graph.nodes[id].importance = importance,
                 !.graph.nodes[id].timeRequired = poiTime,
                 !.dailyItineraries = IF last THEN Append(closed, day) ELSE closed,
                 !.currentDay = day,
                 !.currentDayTime = IF newDay THEN poiTime ELSE @ + poiTime,
                 !.i = @ + 1,
                 !.pc = IF last THEN "balance" ELSE "walk" ]

\* one iteration of the for loop, lines 394-426, followed after the last
\* iteration by the flush of lines 429-432
organizeByDays(s) ==
  LET id == s.tour[s.i]
      poi == s.graph.nodes[id]
      poiTime == PoiTime(poi)
      importance == Importance(poi, s.organizeTripType)
      newDay == ExceedsBudget(s.currentDayTime + poiTime, s.totalTime, s.days,
                              ImportanceFactor(importance))
                /\ Len(s.currentDay) > 0
      closed == IF newDay THEN Append(s.dailyItineraries, s.currentDay)
                ELSE s.dailyItineraries
      day == IF newDay THEN << id >> ELSE Append(s.currentDay, id)
      last == s.i = Len(s.tour)
  IN  [ s EXCEPT !.graph.nodes[id].importance = importance,
                 !.graph.nodes[id].timeRequired = poiTime,
                 !.dailyItineraries = IF last THEN Append(closed, day) ELSE closed,
                 !.currentDay = day,
                 !.currentDayTime = IF newDay THEN poiTime ELSE @ + poiTime,
                 !.i = @ + 1,
                 !.pc = IF last THEN "balance" ELSE "walk" ]

\* ------------------------------------------------------------------------
\* balanceDays, lines 453-486
\* ------------------------------------------------------------------------
\* one iteration of the first while loop, lines 455-457
balanceDaysFill(s) ==
  [ s EXCEPT !.dailyItineraries = Append(@, <<>>) ]

\* the two nested for loops, lines 466-475, from the pair (i, j) on: best is
\* {minDay1Index, minDay2Index, minTotalPOIs}
RECURSIVE ScanPairs(_, _, _, _)
ScanPairs(best, i, j, dailyItineraries) ==
  IF i > Len(dailyItineraries) - 1 THEN best
  ELSE IF j > Len(dailyItineraries) THEN ScanPairs(best, i + 1, i + 2, dailyItineraries)
  ELSE LET totalPOIs == Len(dailyItineraries[i]) + Len(dailyItineraries[j])
       IN  ScanPairs(IF totalPOIs < best.minTotalPOIs
                     THEN [ minDay1Index |-> i, minDay2Index |-> j,
                            minTotalPOIs |-> totalPOIs ]
                     ELSE best,
                     i, j + 1, dailyItineraries)

\* mutant: the first two buckets are merged without a scan
MergePairFirstTwo(dailyItineraries) ==
  [ minDay1Index |-> 1, minDay2Index |-> 2,
    minTotalPOIs |-> Len(dailyItineraries[1]) + Len(dailyItineraries[2]) ]

MergePair(dailyItineraries) ==
  ScanPairs([ minDay1Index |-> 1, minDay2Index |-> 2,
              minTotalPOIs |-> Len(dailyItineraries[1]) + Len(dailyItineraries[2]) ],
            1, 2, dailyItineraries)

\* mutant: the second bucket is removed without being appended to the first
MergeDaysDropping(dailyItineraries, a, b) == RemoveAt(dailyItineraries, b)

\* lines 478-479
MergeDays(dailyItineraries, a, b) ==
  RemoveAt([ dailyItineraries EXCEPT ![a] = @ \o dailyItineraries[b] ], b)

\* one iteration of the second while loop, lines 460-482; with fewer than
\* two buckets line 464 reads the length of undefined and throws
balanceDaysMerge(s) ==
  IF Len(s.dailyItineraries) < 2
  THEN [ s EXCEPT !.pc = "threw", !.error = "TypeError" ]
  ELSE LET pair == MergePair(s.dailyItineraries)
       IN  [ s EXCEPT !.dailyItineraries =
                         MergeDays(@, pair.minDay1Index, pair.minDay2Index),
                      !.merges = Append(@, << pair.minDay1Index, pair.minDay2Index >>) ]

\* ------------------------------------------------------------------------
\* balanceUnevenDays, lines 493-559
\* ------------------------------------------------------------------------
RECURSIVE DayTime(_, _)
DayTime(nodes, day) ==
  IF day = <<>> THEN 0
  ELSE PoiTime(nodes[Head(day)]) + DayTime(nodes, Tail(day))

\* lines 493-508
balanceUnevenDaysEntry(s) ==
  IF Len(s.dailyItineraries) <= 1 THEN [ s EXCEPT !.pc = "return" ]
  ELSE LET times == [ d \in 1..Len(s.dailyItineraries) |->
                        DayTime(s.graph.nodes, s.dailyItineraries[d]) ]
       IN  [ s EXCEPT !.dayTimes = times,
                      !.balanceTotal = SumSeq(times),
                      !.k = 1,
                      !.pc = "sweep" ]

\* dayTime > avgTimePerDay * 1.3
Overloaded(dayTime, total, n) == dayTime * n * 10 > total * 13

\* dayTime < avgTimePerDay * 0.8
Underloaded(dayTime, total, n) == dayTime * n * 10 < total * 8

\* lines 518-527: the index of the least important POI of the day, scanning
\* from position j with the best {index, importance} so far
RECURSIVE ScanLeastImportant(_, _, _, _)
ScanLeastImportant(best, j, day, nodes) ==
  IF j > Len(day) THEN best
  ELSE LET importance == OrElse(nodes[day[j]].importance, 100)
       IN  ScanLeastImportant(IF importance < best.importance
                              THEN [ index |-> j, importance |-> importance ]
                              ELSE best,
                              j + 1, day, nodes)

\* mutant: the scan for a less important POI is left out
LeastImportantIndexFirst(day, nodes) == 1

LeastImportantIndex(day, nodes) ==
  ScanLeastImportant([ index |-> 1,
                       importance |-> OrElse(nodes[day[1]].importance, 100) ],
                     2, day, nodes).index

\* lines 530-540: the index of the most underloaded day other than i, or 0;
\* best is {index, lowestTime} with index 0 standing for lowestTime = Infinity
RECURSIVE ScanUnderloaded(_, _, _, _, _)
ScanUnderloaded(best, j, i, dayTimes, total) ==
  IF j > Len(dayTimes) THEN best
  ELSE ScanUnderloaded(IF j # i /\ Underloaded(dayTimes[j], total, Len(dayTimes))
                          /\ (best.index = 0 \/ dayTimes[j] < best.lowestTime)
                       THEN [ index |-> j, lowestTime |-> dayTimes[j] ]
                       ELSE best,
                       j + 1, i, dayTimes, total)

MostUnderloadedIndex(i, dayTimes, total) ==
  ScanUnderloaded([ index |-> 0, lowestTime |-> 0 ], 1, i, dayTimes, total).index

\* mutant: after a move the same bucket is examined again
balanceUnevenDaysRevisits(s) ==
  LET n == Len(s.dailyItineraries)
      day == s.dailyItineraries[s.k]
      next == [ s EXCEPT !.k = @ + 1,
                         !.pc = IF s.k = n THEN "return" ELSE "sweep" ]
  IN  IF Overloaded(s.dayTimes[s.k], s.balanceTotal, n) /\ Len(day) > 1
      THEN LET leastImportantIndex == LeastImportantIndex(day, s.graph.nodes)
               mostUnderloadedIndex ==
                 MostUnderloadedIndex(s.k, s.dayTimes, s.balanceTotal)
               poiToMove == day[leastImportantIndex]
               poiTime == PoiTime(s.graph.nodes[poiToMove])
           IN  IF mostUnderloadedIndex >= 1
               THEN [ s EXCEPT
                        !.dailyItineraries =
                           [ @ EXCEPT ![s.k] = RemoveAt(day, leastImportantIndex),
                                      ![mostUnderloadedIndex] = Append(@, poiToMove) ],
                        !.dayTimes =
                           [ @ EXCEPT ![s.k] = @ - poiTime,
                                      ![mostUnderloadedIndex] = @ + poiTime ],
                        !.moves = Append(@, [ poi |-> poiToMove, from |-> s.k,
                                              to |-> mostUnderloadedIndex ]) ]
               ELSE next
      ELSE next

\* one iteration of the for loop, lines 511-558
balanceUnevenDays(s) ==
  LET n == Len(s.dailyItineraries)
      day == s.dailyItineraries[s.k]
      next == [ s EXCEPT !.k = @ + 1,
                         !.pc = IF s.k = n THEN "return" ELSE "sweep" ]
  IN  IF Overloaded(s.dayTimes[s.k], s.balanceTotal, n) /\ Len(day) > 1
      THEN LET leastImportantIndex == LeastImportantIndex(day, s.graph.nodes)
               mostUnderloadedIndex ==
                 MostUnderloadedIndex(s.k, s.dayTimes, s.balanceTotal)
               poiToMove == day[leastImportantIndex]
               poiTime == PoiTime(s.graph.nodes[poiToMove])
           IN  IF mostUnderloadedIndex >= 1
               THEN [ next EXCEPT
                        !.dailyItineraries =
                           [ @ EXCEPT ![s.k] = RemoveAt(day, leastImportantIndex),
                                      ![mostUnderloadedIndex] = Append(@, poiToMove) ],
                        !.dayTimes =
                           [ @ EXCEPT ![s.k] = @ - poiTime,
                                      ![mostUnderloadedIndex] = @ + poiTime ],
                        !.moves = Append(@, [ poi |-> poiToMove, from |-> s.k,
                                              to |-> mostUnderloadedIndex ]) ]
               ELSE next
      ELSE next

\* ------------------------------------------------------------------------
\* optimizeTrip, lines 609-623
\* ------------------------------------------------------------------------
\* the buckets as the caller sees them: arrays of the annotated POI records
Records(nodes, dailyItineraries) ==
  [ d \in 1..Len(dailyItineraries) |->
      [ j \in 1..Len(dailyItineraries[d]) |-> nodes[dailyItineraries[d][j]] ] ]

optimizeTripReturn(s) ==
  [ s EXCEPT !.pc = "done",
             !.result =
                [ kind |-> "object",
                  dailyItineraries |-> Records(s.graph.nodes, s.dailyItineraries),
                  metadata |->
                    [ tripType |-> s.tripType,
                      startingPoint |-> s.graph.nodes[s.bestStartNode].name,
                      totalPOIs |-> Len(s.tour),
                      optimizationMethod |-> "Enhanced Nearest Neighbor with Dijkstra" ] ] ]

\* ------------------------------------------------------------------------
\* The whole call as a function: the steps above, taken in the order of the
\* code until the call returns or throws
\* ------------------------------------------------------------------------
\* the step the code takes next in state s
StepOf(s) ==
  CASE s.pc = "tour" -> nearestNeighborTour(s)
    [] s.pc = "organize" -> organizeByDaysEntry(s, "Historical")
    [] s.pc = "walk" -> organizeByDays(s)
    [] s.pc = "balance" /\ Len(s.dailyItineraries) < s.days -> balanceDaysFill(s)
    [] s.pc = "balance" /\ Len(s.dailyItineraries) > s.days -> balanceDaysMerge(s)
    [] s.pc = "balance" /\ Len(s.dailyItineraries) = s.days -> balanceUnevenDaysEntry(s)
    [] s.pc = "sweep" -> balanceUnevenDays(s)
    [] s.pc = "return" -> optimizeTripReturn(s)

RECURSIVE RunToEnd(_)
RunToEnd(s) == IF s.pc \in { "done", "threw" } THEN s ELSE RunToEnd(StepOf(s))

optimizeTrip(s, days, tripType) == RunToEnd(optimizeTripEntry(s, days, tripType))

\* ------------------------------------------------------------------------
\* graph.js: getPOIs.  Coordinates are whole degrees, <<lat, lng>>; <<>> is
\* no coordinates (null) or no location (undefined).
\* ------------------------------------------------------------------------
\* the destinations a request is made for: one of commonDestinations and
\* one that is not
Destinations == { "Jaipur", "Hampi" }

\* destination.toLowerCase()
DestinationLower(destination) ==
  CASE destination = "Jaipur" -> "jaipur"
    [] destination = "Hampi" -> "hampi"

commonDestinations ==
  [ delhi |-> << 29, 77 >>, mumbai |-> << 19, 73 >>, bangalore |-> << 13, 78 >>,
    jaipur |-> << 27, 76 >>, agra |-> << 27, 78 >>, default |-> << 21, 79 >> ]

\* the coordinates a request is made with: none, a pair, a pair with
\* latitude 0
CoordinateInputs == { <<>>, << 27, 76 >>, << 0, 76 >> }

\* coordinates && coordinates.lat && coordinates.lon
CoordinatesProvided(coordinates) ==
  /\ coordinates # <<>>
  /\ Truthy(coordinates[1])
  /\ Truthy(coordinates[2])

\* how the Nominatim request ends: a place, an empty list, an error, a
\* timeout
GeocodeOutcomes == { "found", "empty", "error", "timeout" }

\* the keywords of mapTripTypeToOsmTags
osmKeywords ==
  [ Historical |-> << "historic", "fort", "palace", "monument", "museum" >>,
    Religious  |-> << "temple", "mosque", "church", "shrine", "religious" >>,
    Nature     |-> << "park", "garden", "nature", "lake", "mountain", "viewpoint" >>,
    Adventure  |-> << "adventure", "trek", "safari", "hiking", "climbing" >>,
    Romantic   |-> << "romantic", "cafe", "restaurant", "viewpoint", "sunset" >> ]

\* typeMapping[tripType] || typeMapping['Historical']
mapTripTypeToOsmTags(type) ==
  IF type \in DOMAIN osmKeywords THEN osmKeywords[type] ELSE osmKeywords["Historical"]

\* an element of an Overpass response; "" is an absent tag, lat and lon are
\* Undefined in an element without them, center is <<>> or the <<lat, lon>>
\* of a way
Element(id, name, lat, center, tourism, historic, amenity, description) ==
  [ id |-> id, name |-> name, lat |-> lat,
    lon |-> IF lat = Undefined THEN Undefined ELSE 76, center |-> center,
    tourism |-> tourism, historic |-> historic, natural |-> "", leisure |-> "",
    amenity |-> amenity, description |-> description, website |-> "" ]

\* a named node, a way of the same name, an unnamed node, a named relation
\* without coordinates, another named node
sampleElements ==
  { Element(1, "Amber Fort", 27, <<>>, "attraction", "fort", "", ""),
    Element(2, "Amber Fort", Undefined, << 27, 76 >>, "", "fort", "", "hill fort"),
    Element(3, NoText, 27, <<>>, "", "", "restaurant", ""),
    Element(4, "City Palace", Undefined, <<>>, "museum", "", "", ""),
    Element(5, "Birla Temple", 26, <<>>, "", "", "place_of_worship", "") }

\* the keywords that are substrings of the lower-cased name of an element
ElementNameIncludes(name) ==
  CASE name = "Amber Fort" -> { "fort" }
    [] name = "City Palace" -> { "palace" }
    [] name = "Birla Temple" -> { "temple" }
    [] OTHER -> {}

\* the lists of at most n distinct elements
RECURSIVE ElementLists(_)
ElementLists(n) ==
  IF n = 0 THEN { <<>> }
  ELSE ElementLists(n - 1)
         \cup { Append(l, e) : l \in { m \in ElementLists(n - 1) : Len(m) = n - 1 },
                               e \in sampleElements }

\* how an Overpass request ends: a response with elements, a response
\* without an elements field, an error, a timeout
OverpassResponses ==
  { [ kind |-> "data", elements |-> l ] :
      l \in { m \in ElementLists(MaxElements) :
                \A a, b \in 1..Len(m) : m[a].id = m[b].id => a = b } }
    \cup { [ kind |-> kd, elements |-> <<>> ] : kd \in { "noElements", "error", "timeout" } }

\* the filter of both passes: a name and coordinates, direct or center
ValidElement(element) ==
  /\ element.name # NoText
  /\ \/ element.lat # Undefined /\ element.lon # Undefined
     \/ element.center # <<>>

\* element.lat || (element.center ? element.center.lat : null), and the same
\* for the longitude
ElementLocation(element) ==
  << IF Truthy(element.lat) THEN element.lat
     ELSE IF element.center # <<>> THEN element.center[1] ELSE Undefined,
     IF Truthy(element.lon) THEN element.lon
     ELSE IF element.center # <<>> THEN element.center[2] ELSE Undefined >>

\* relevanceScore of the primary pass
primaryScore(element, type) ==
  5 * Cardinality(Range(mapTripTypeToOsmTags(type)) \cap ElementNameIncludes(element.name))
    + (IF element.tourism # "" THEN 3 ELSE 0)
    + (IF element.historic # "" THEN (IF type = "Historical" THEN 5 ELSE 2) ELSE 0)
    + (IF element.natural # "" THEN (IF type = "Nature" THEN 5 ELSE 2) ELSE 0)
    + (IF element.leisure # "" THEN 2 ELSE 0)
    + (IF element.amenity = "place_of_worship"
         THEN (IF type = "Religious" THEN 5 ELSE 1) ELSE 0)

\* score of the fallback pass
fallbackScore(element) ==
  (IF element.name # NoText THEN 2 ELSE 0)
    + (IF element.description # "" THEN 1 ELSE 0)
    + (IF element.website # "" THEN 1 ELSE 0)
    + (IF element.tourism = "attraction" THEN 3 ELSE 0)
    + (IF element.historic # "" THEN 2 ELSE 0)
    + (IF element.amenity # "" THEN 1 ELSE 0)

\* x put behind the entries of the sorted list that score at least as much
RECURSIVE InsertScored(_, _)
InsertScored(sorted, x) ==
  IF sorted = <<>> THEN << x >>
  ELSE IF Head(sorted).score >= x.score
         THEN << Head(sorted) >> \o InsertScored(Tail(sorted), x)
         ELSE << x >> \o sorted

\* scoredElements.sort((a, b) => b.score - a.score): descending and stable
RECURSIVE SortScored(_)
SortScored(scored) ==
  IF scored = <<>> THEN <<>>
  ELSE InsertScored(SortScored(SubSeq(scored, 1, Len(scored) - 1)),
                    scored[Len(scored)])

poiIds == << "poi_1", "poi_2", "poi_3", "poi_4", "poi_5", "poi_6" >>

\* the loop that formats the POIs: duplicates of a name are skipped and the
\* list is cut at limit; the rating (random when the element has none) and
\* the visit duration are left out
RECURSIVE FormatPOIs(_, _, _, _, _)
FormatPOIs(scored, usedNames, pois, limit, isFallback) ==
  IF scored = <<>> \/ Len(pois) >= limit THEN pois
  ELSE LET element == Head(scored).element
       IN  IF element.name \in usedNames
             THEN FormatPOIs(Tail(scored), usedNames, pois, limit, isFallback)
             ELSE FormatPOIs(Tail(scored), usedNames \cup { element.name },
                             Append(pois,
                                    [ id |-> poiIds[Len(pois) + 1],
                                      name |-> << element.name >>,
                                      location |-> ElementLocation(element),
                                      relevanceScore |-> Head(scored).score,
                                      isFallback |-> isFallback,
                                      isEmergencyBackup |-> FALSE ]),
                             limit, isFallback)

\* step 4 of the primary path: the POIs made of a response
primaryPOIs(response, type) ==
  IF response.kind # "data" THEN <<>>
  ELSE LET valid == SelectSeq(response.elements, ValidElement)
           scored == [ n \in 1..Len(valid) |->
                         [ element |-> valid[n],
                           score |-> primaryScore(valid[n], type) ] ]
       IN  FormatPOIs(SortScored(scored), {}, <<>>, 20, FALSE)

\* the POIs made of the response to the simplified query
fallbackPOIs(response) ==
  IF response.kind # "data" THEN <<>>
  ELSE LET valid == SelectSeq(response.elements, ValidElement)
           scored == [ n \in 1..Len(valid) |->
                         [ element |-> valid[n], score |-> fallbackScore(valid[n]) ] ]
       IN  FormatPOIs(SortScored(scored), {}, <<>>, 15, TRUE)

poiTemplates ==
  [ Historical |-> << "Historical Museum", "Ancient Fort", "Heritage Palace",
                      "Old Town Square", "Historical Monument",
                      "Archaeological Site" >>,
    Religious  |-> << "Grand Temple", "Sacred Shrine", "Holy Site",
                      "Ancient Monastery", "Pilgrimage Center" >>,
    Nature     |-> << "National Park", "Botanical Garden", "Scenic Waterfall",
                      "Mountain Viewpoint", "Nature Reserve" >>,
    Adventure  |-> << "Adventure Park", "Hiking Trail", "Zipline Experience",
                      "Rock Climbing Site", "Water Sports Center" >>,
    Romantic   |-> << "Sunset Point", "Lakeside Retreat", "Garden Restaurant",
                      "Scenic Viewpoint", "Couples Park" >> ]

\* location || the entry of commonDestinations || the default entry
backupCoords(destination, location) ==
  IF location # <<>> THEN location
  ELSE IF DestinationLower(destination) \in DOMAIN commonDestinations
         THEN commonDestinations[DestinationLower(destination)]
         ELSE commonDestinations["default"]

\* the emergency POIs of the inner catch block, one per template, each less
\* than a hundredth of a degree from backupCoords
backupPois(destination, type, location) ==
  LET templates == IF type \in DOMAIN poiTemplates THEN poiTemplates[type]
                   ELSE poiTemplates["Historical"]
  IN  [ n \in 1..Len(templates) |->
          [ id |-> poiIds[n],
            name |-> << templates[n], " of ", destination >>,
            location |-> backupCoords(destination, location),
            relevanceScore |-> Undefined,
            isFallback |-> FALSE,
            isEmergencyBackup |-> TRUE ] ]

\* a request that has been sent and how it ended
Sent(request) == [ request |-> request, outcome |-> "pending" ]

\* the last request of the list has ended with outcome
Settle(requests, outcome) ==
  [ requests EXCEPT ![Len(requests)].outcome = outcome ]

\* no call of getPOIs yet
NotFetching ==
  [ pc |-> "idle", destination |-> "", tripType |-> "", coordinates |-> <<>>,
    location |-> <<>>, requests |-> <<>>, pois |-> <<>> ]

\* getPOIs up to its first await: the coordinates given are used, else the
\* destination is geocoded
getPOIsEntry(destination, type, coordinates) ==
  IF CoordinatesProvided(coordinates)
    THEN [ NotFetching EXCEPT !.pc = "primary", !.destination = destination,
                              !.tripType = type, !.coordinates = coordinates,
                              !.location = coordinates,
                              !.requests = << Sent("primary") >> ]
    ELSE [ NotFetching EXCEPT !.pc = "geocode", !.destination = destination,
                              !.tripType = type, !.coordinates = coordinates,
                              !.requests = << Sent("geocode") >> ]

\* getDestinationCoordinates returns or throws; a throw lands in the outer
\* catch block, which sends the simplified query
getDestinationCoordinates(f, outcome) ==
  IF outcome = "found"
    THEN [ f EXCEPT !.pc = "primary", !.location = << 27, 76 >>,
                    !.requests = Append(Settle(@, "ok"), Sent("primary")) ]
    ELSE [ f EXCEPT !.pc = "fallback",
                    !.requests = Append(Settle(@, IF outcome = "empty" THEN "none"
                                                  ELSE outcome),
                                        Sent("fallback")) ]

\* the outcome of an Overpass request as the log keeps it
OutcomeOf(response, pois) ==
  IF response.kind \in { "error", "timeout" } THEN response.kind
  ELSE IF pois = <<>> THEN "none" ELSE "ok"

\* mutant: the primary path returns its POIs even when there are none
getPOIsPrimaryReturnsAny(f, response) ==
  LET pois == primaryPOIs(response, f.tripType)
  IN  IF response.kind \in { "error", "timeout" }
        THEN [ f EXCEPT !.pc = "fallback",
                        !.requests = Append(Settle(@, response.kind), Sent("fallback")) ]
        ELSE [ f EXCEPT !.pc = "resolved", !.pois = pois,
                        !.requests = Settle(@, OutcomeOf(response, pois)) ]

\* the primary Overpass request has ended: its POIs are returned, or the
\* outer catch block sends the simplified query
getPOIsPrimary(f, response) ==
  LET pois == primaryPOIs(response, f.tripType)
  IN  IF response.kind \in { "error", "timeout" } \/ pois = <<>>
        THEN [ f EXCEPT !.pc = "fallback",
                        !.requests = Append(Settle(@, OutcomeOf(response, pois)),
                                            Sent("fallback")) ]
        ELSE [ f EXCEPT !.pc = "resolved", !.pois = pois,
                        !.requests = Settle(@, "ok") ]

\* the simplified request has ended: its POIs are returned, or the inner
\* catch block returns the emergency POIs
getPOIsFallback(f, response) ==
  LET pois == fallbackPOIs(response)
  IN  IF response.kind \in { "error", "timeout" } \/ pois = <<>>
        THEN [ f EXCEPT !.pc = "resolved",
                        !.pois = backupPois(f.destination, f.tripType, f.location),
                        !.requests = Settle(@, OutcomeOf(response, pois)) ]
        ELSE [ f EXCEPT !.pc = "resolved", !.pois = pois,
                        !.requests = Settle(@, "ok") ]

\* ------------------------------------------------------------------------
\* TrieDataStructure.js.  A word is a sequence of characters.  The nodes of
\* a trie are kept by their path from the root: nodes[p] is the node reached
\* by the characters of p, and its children are listed in the order they
\* were created (the order of for...in).
\* ------------------------------------------------------------------------
Alphabet == { "a", "B", " " }

\* the words and prefixes the operations are called with
Words == UNION { [ 1..n -> Alphabet ] : n \in 0..MaxWordLen }

\* the metadata a word is inserted with: none (null) or a place
Metadata == { Null, "place" }

LowerChar(c) == IF c = "B" THEN "b" ELSE c

\* word.toLowerCase()
toLowerCase(word) == [ n \in 1..Len(word) |-> LowerChar(word[n]) ]

RECURSIVE trimStart(_)
trimStart(word) ==
  IF word # <<>> /\ Head(word) = " " THEN trimStart(Tail(word)) ELSE word

RECURSIVE trimEnd(_)
trimEnd(word) ==
  IF word # <<>> /\ word[Len(word)] = " "
    THEN trimEnd(SubSeq(word, 1, Len(word) - 1)) ELSE word

\* word.trim()
trim(word) == trimEnd(trimStart(word))

\* new TrieNode()
TrieNode == [ children |-> <<>>, isEndOfWord |-> FALSE, metadata |-> Null ]

\* new Trie(): a root and an empty map
Trie == [ nodes |-> [ p \in { <<>> } |-> TrieNode ], placesMap |-> <<>> ]

\* placesMap.set(key, value)
MapSet(map, key, value) ==
  [ x \in DOMAIN map \cup { key } |-> IF x = key THEN value ELSE map[x] ]

\* the loop of insert from character n on: a missing child is created
RECURSIVE insertFrom(_, _, _)
insertFrom(nodes, word, n) ==
  IF n > Len(word) THEN nodes
  ELSE LET current == SubSeq(word, 1, n - 1)
           child == SubSeq(word, 1, n)
       IN  IF child \in DOMAIN nodes THEN insertFrom(nodes, word, n + 1)
           ELSE insertFrom([ p \in DOMAIN nodes \cup { child } |->
                               IF p = child THEN TrieNode
                               ELSE IF p = current
                                      THEN [ nodes[p] EXCEPT !.children = Append(@, word[n]) ]
                                      ELSE nodes[p] ],
                           word, n + 1)

\* mutant: the map is keyed by the word as given
insertRawKey(t, word, metadata) ==
  IF word = <<>> THEN t
  ELSE LET normalizedWord == trim(toLowerCase(word))
           nodes == insertFrom(t.nodes, normalizedWord, 1)
       IN  [ nodes |-> [ nodes EXCEPT ![normalizedWord].isEndOfWord = TRUE,
                                      ![normalizedWord].metadata = metadata ],
             placesMap |-> MapSet(t.placesMap, word, metadata) ]

insert(t, word, metadata) ==
  IF word = <<>> THEN t
  ELSE LET normalizedWord == trim(toLowerCase(word))
           nodes == insertFrom(t.nodes, normalizedWord, 1)
       IN  [ nodes |-> [ nodes EXCEPT ![normalizedWord].isEndOfWord = TRUE,
                                      ![normalizedWord].metadata = metadata ],
             placesMap |-> MapSet(t.placesMap, normalizedWord, metadata) ]

clear(t) == Trie

RECURSIVE collectWords(_, _, _, _)
RECURSIVE collectChildren(_, _, _, _, _)
\* _collectWords(node, prefix, suggestions, limit)
collectWords(nodes, prefix, suggestions, limit) ==
  IF Len(suggestions) >= limit THEN suggestions
  ELSE collectChildren(nodes, prefix, nodes[prefix].children,
                       IF nodes[prefix].isEndOfWord
                         THEN Append(suggestions,
                                     [ name |-> prefix,
                                       metadata |-> nodes[prefix].metadata ])
                         ELSE suggestions,
                       limit)

\* the loop of _collectWords over the children of a node
collectChildren(nodes, prefix, chars, suggestions, limit) ==
  IF chars = <<>> THEN suggestions
  ELSE collectChildren(nodes, prefix, Tail(chars),
                       collectWords(nodes, Append(prefix, Head(chars)),
                                    suggestions, limit),
                       limit)

\* the walk from the root along the prefix reaches a node
RECURSIVE HasPath(_, _, _)
HasPath(nodes, word, n) ==
  \/ n > Len(word)
  \/ /\ \E c \in 1..Len(nodes[SubSeq(word, 1, n - 1)].children) :
          nodes[SubSeq(word, 1, n - 1)].children[c] = word[n]
     /\ HasPath(nodes, word, n + 1)

searchPrefix(t, prefix, limit) ==
  IF prefix = <<>> THEN <<>>
  ELSE LET normalizedPrefix == trim(toLowerCase(prefix))
       IN  IF ~ HasPath(t.nodes, normalizedPrefix, 1) THEN <<>>
           ELSE collectWords(t.nodes, normalizedPrefix, <<>>, limit)

\* ------------------------------------------------------------------------
\* Specification
\* ------------------------------------------------------------------------
VARIABLES graph, days, tripType, organizeTripType, pc, bestStartNode, tour,
          visited, currentNode, totalTime, dailyItineraries, currentDay,
          currentDayTime, i, dayTimes, balanceTotal, k, merges, moves,
          result, error, previous, fetch, trie

vars == << graph, days, tripType, organizeTripType, pc, bestStartNode, tour,
           visited, currentNode, totalTime, dailyItineraries, currentDay,
           currentDayTime, i, dayTimes, balanceTotal, k, merges, moves,
           result, error, previous, fetch, trie >>

\* the variables of the call as a state record
St ==
  [ graph |-> graph, days |-> days, tripType |-> tripType,
    organizeTripType |-> organizeTripType, pc |-> pc,
    bestStartNode |-> bestStartNode, tour |-> tour, visited |-> visited,
    currentNode |-> currentNode, totalTime |-> totalTime,
    dailyItineraries |-> dailyItineraries, currentDay |-> currentDay,
    currentDayTime |-> currentDayTime, i |-> i, dayTimes |-> dayTimes,
    balanceTotal |-> balanceTotal, k |-> k, merges |-> merges, moves |-> moves,
    result |-> result, error |-> error ]

\* the next state of the variables of the call is s; a call of optimizeTrip
\* touches neither the POI request nor the trie
Becomes(s) ==
  /\ UNCHANGED << fetch, trie >>
  /\ graph' = s.graph
  /\ days' = s.days
  /\ tripType' = s.tripType
  /\ organizeTripType' = s.organizeTripType
  /\ pc' = s.pc
  /\ bestStartNode' = s.bestStartNode
  /\ tour' = s.tour
  /\ visited' = s.visited
  /\ currentNode' = s.currentNode
  /\ totalTime' = s.totalTime
  /\ dailyItineraries' = s.dailyItineraries
  /\ currentDay' = s.currentDay
  /\ currentDayTime' = s.currentDayTime
  /\ i' = s.i
  /\ dayTimes' = s.dayTimes
  /\ balanceTotal' = s.balanceTotal
  /\ k' = s.k
  /\ merges' = s.merges
  /\ moves' = s.moves
  /\ result' = s.result
  /\ error' = s.error

\* the day counts a call is made with: the valid ones and a negative one
DayCounts == { 0 - 1 } \cup (1..MaxDays)

\* the caller has built the graph of some list of fresh POIs (buildGraph is
\* called once, before the first optimizeTrip call) and has not called yet
Init ==
  /\ graph \in { buildGraph(pois) : pois \in POILists(MaxPOIs) }
  /\ days = 0
  /\ tripType = "none"
  /\ pc = "idle"
  /\ organizeTripType = Locals.organizeTripType
  /\ bestStartNode = Locals.bestStartNode
  /\ tour = Locals.tour
  /\ visited = Locals.visited
  /\ currentNode = Locals.currentNode
  /\ totalTime = Locals.totalTime
  /\ dailyItineraries = Locals.dailyItineraries
  /\ currentDay = Locals.currentDay
  /\ currentDayTime = Locals.currentDayTime
  /\ i = Locals.i
  /\ dayTimes = Locals.dayTimes
  /\ balanceTotal = Locals.balanceTotal
  /\ k = Locals.k
  /\ merges = Locals.merges
  /\ moves = Locals.moves
  /\ result = Locals.result
  /\ error = Locals.error
  /\ previous = <<>>
  /\ fetch = NotFetching
  /\ trie = Trie

\* the caller calls optimizeTrip(graph, d, t)
Call(d, t) ==
  /\ pc = "idle"
  /\ Becomes(optimizeTripEntry(St, d, t))
  /\ UNCHANGED previous

TourLoop ==
  /\ pc = "tour"
  /\ Becomes(nearestNeighborTour(St))
  /\ UNCHANGED previous

\* optimizeTrip calls organizeByDays(tour, days): the third parameter takes
\* its default value
OrganizeEntry ==
  /\ pc = "organize"
  /\ Becomes(organizeByDaysEntry(St, "Historical"))
  /\ UNCHANGED previous

Walk ==
  /\ pc = "walk"
  /\ Becomes(organizeByDays(St))
  /\ UNCHANGED previous

Fill ==
  /\ pc = "balance"
  /\ Len(dailyItineraries) < days
  /\ Becomes(balanceDaysFill(St))
  /\ UNCHANGED previous

Merge ==
  /\ pc = "balance"
  /\ Len(dailyItineraries) > days
  /\ Becomes(balanceDaysMerge(St))
  /\ UNCHANGED previous

UnevenEntry ==
  /\ pc = "balance"
  /\ Len(dailyItineraries) = days
  /\ Becomes(balanceUnevenDaysEntry(St))
  /\ UNCHANGED previous

Sweep ==
  /\ pc = "sweep"
  /\ Becomes(balanceUnevenDays(St))
  /\ UNCHANGED previous

Return ==
  /\ pc = "return"
  /\ Becomes(optimizeTripReturn(St))
  /\ UNCHANGED previous

Next ==
  \/ \E d \in DayCounts, t \in TripTypes : Call(d, t)
  \/ TourLoop
  \/ OrganizeEntry
  \/ Walk
  \/ Fill
  \/ Merge
  \/ UnevenEntry
  \/ Sweep
  \/ Return

Spec == Init /\ [][Next]_vars

\* the caller calls optimizeTrip again on the same graph with the same
\* arguments
Rerun ==
  /\ pc = "done"
  /\ Len(previous) + 1 < MaxCalls
  /\ Becomes(optimizeTripEntry(St, days, tripType))
  /\ previous' = Append(previous, [ days |-> days, tripType |-> tripType,
                                    result |-> result ])

NextRerun ==
  \/ Next
  \/ Rerun

SpecRerun == Init /\ [][NextRerun]_vars

\* the caller calls optimizeTrip again on the same graph, as the test does
\* for one trip type after the other; previous keeps what the earlier calls
\* were made with and returned
CallAgain(d, t) ==
  /\ pc = "done"
  /\ Len(previous) + 1 < MaxCalls
  /\ Becomes(optimizeTripEntry(St, d, t))
  /\ previous' = Append(previous, [ days |-> days, tripType |-> tripType,
                                    result |-> result ])

NextRepeat ==
  \/ Next
  \/ \E d \in DayCounts, t \in TripTypes : CallAgain(d, t)

SpecRepeat == Init /\ [][NextRepeat]_vars

\* the sequences that hold every element of the set S exactly once
RECURSIVE Orderings(_)
Orderings(S) ==
  IF S = {} THEN { <<>> }
  ELSE UNION { { << x >> \o l : l \in Orderings(S \ { x }) } : x \in S }

\* the sample POIs of tests/optimizerTest.js
testPOIs == { p \in samplePOIs : p.id \in { "poi1", "poi2", "poi3", "poi4", "poi5" } }

\* the caller has built the graph of the sample POIs of the test, or of
\* some of them, in any order
InitSamples ==
  /\ graph \in { buildGraph(pois) :
                   pois \in UNION { Orderings(S) : S \in SUBSET testPOIs } }
  /\ days = 0
  /\ tripType = "none"
  /\ pc = "idle"
  /\ organizeTripType = Locals.organizeTripType
  /\ bestStartNode = Locals.bestStartNode
  /\ tour = Locals.tour
  /\ visited = Locals.visited
  /\ currentNode = Locals.currentNode
  /\ totalTime = Locals.totalTime
  /\ dailyItineraries = Locals.dailyItineraries
  /\ currentDay = Locals.currentDay
  /\ currentDayTime = Locals.currentDayTime
  /\ i = Locals.i
  /\ dayTimes = Locals.dayTimes
  /\ balanceTotal = Locals.balanceTotal
  /\ k = Locals.k
  /\ merges = Locals.merges
  /\ moves = Locals.moves
  /\ result = Locals.result
  /\ error = Locals.error
  /\ previous = <<>>
  /\ fetch = NotFetching
  /\ trie = Trie

SpecSamples == InitSamples /\ [][Next]_vars

\* optimizeTrip has not been called and there is no graph
OptimizerIdle ==
  /\ graph = buildGraph(<<>>)
  /\ days = 0
  /\ tripType = "none"
  /\ pc = "idle"
  /\ organizeTripType = Locals.organizeTripType
  /\ bestStartNode = Locals.bestStartNode
  /\ tour = Locals.tour
  /\ visited = Locals.visited
  /\ currentNode = Locals.currentNode
  /\ totalTime = Locals.totalTime
  /\ dailyItineraries = Locals.dailyItineraries
  /\ currentDay = Locals.currentDay
  /\ currentDayTime = Locals.currentDayTime
  /\ i = Locals.i
  /\ dayTimes = Locals.dayTimes
  /\ balanceTotal = Locals.balanceTotal
  /\ k = Locals.k
  /\ merges = Locals.merges
  /\ moves = Locals.moves
  /\ result = Locals.result
  /\ error = Locals.error
  /\ previous = <<>>

optimizerVars ==
  << graph, days, tripType, organizeTripType, pc, bestStartNode, tour, visited,
     currentNode, totalTime, dailyItineraries, currentDay, currentDayTime, i,
     dayTimes, balanceTotal, k, merges, moves, result, error, previous >>

\* ------------------------------------------------------------------------
\* Specification of getPOIs: one call, and its requests ending one after
\* the other in any of the ways a request can end
\* ------------------------------------------------------------------------
InitGetPOIs ==
  /\ OptimizerIdle
  /\ fetch = NotFetching
  /\ trie = Trie

\* tripController calls getPOIs(destination, tripType, coordinates)
GetPOIs(destination, type, coordinates) ==
  /\ fetch.pc = "idle"
  /\ fetch' = getPOIsEntry(destination, type, coordinates)
  /\ UNCHANGED << optimizerVars, trie >>

GeocodeSettles(outcome) ==
  /\ fetch.pc = "geocode"
  /\ fetch' = getDestinationCoordinates(fetch, outcome)
  /\ UNCHANGED << optimizerVars, trie >>

PrimarySettles(response) ==
  /\ fetch.pc = "primary"
  /\ fetch' = getPOIsPrimary(fetch, response)
  /\ UNCHANGED << optimizerVars, trie >>

FallbackSettles(response) ==
  /\ fetch.pc = "fallback"
  /\ fetch' = getPOIsFallback(fetch, response)
  /\ UNCHANGED << optimizerVars, trie >>

\* the request in flight ends
RequestSettles ==
  \/ \E outcome \in GeocodeOutcomes : GeocodeSettles(outcome)
  \/ \E response \in OverpassResponses : PrimarySettles(response)
  \/ \E response \in OverpassResponses : FallbackSettles(response)

NextGetPOIs ==
  \/ \E destination \in Destinations, type \in TripTypes,
        coordinates \in CoordinateInputs : GetPOIs(destination, type, coordinates)
  \/ \E outcome \in GeocodeOutcomes : GeocodeSettles(outcome)
  \/ \E response \in OverpassResponses : PrimarySettles(response)
  \/ \E response \in OverpassResponses : FallbackSettles(response)

\* every request ends: with a response, an error or a timeout
SpecGetPOIs == InitGetPOIs /\ [][NextGetPOIs]_vars /\ WF_vars(RequestSettles)

\* ------------------------------------------------------------------------
\* Specification of the trie: inserts and clears in any order
\* ------------------------------------------------------------------------
InitTrie ==
  /\ OptimizerIdle
  /\ fetch = NotFetching
  /\ trie = Trie

\* insert(word, metadata); the map holds at most MaxPlaces places
Insert(word, metadata) ==
  /\ \/ word = <<>>
     \/ trim(toLowerCase(word)) \in DOMAIN trie.placesMap
     \/ Cardinality(DOMAIN trie.placesMap) < MaxPlaces
  /\ trie' = insert(trie, word, metadata)
  /\ UNCHANGED << optimizerVars, fetch >>

Clear ==
  /\ trie' = clear(trie)
  /\ UNCHANGED << optimizerVars, fetch >>

NextTrie ==
  \/ \E word \in Words, metadata \in Metadata : Insert(word, metadata)
  \/ Clear

SpecTrie == InitTrie /\ [][NextTrie]_vars

\* ------------------------------------------------------------------------
\* Properties
\* ------------------------------------------------------------------------
RECURSIVE Count(_, _)
Count(x, seq) ==
  IF seq = <<>> THEN 0
  ELSE (IF Head(seq) = x THEN 1 ELSE 0) + Count(x, Tail(seq))

\* the tour loop has ended on a graph with at least one node
TourBuilt == pc \notin { "idle", "tour" } /\ Len(graph.order) > 0

\* t visits every node of g exactly once
Hamiltonian(t, g) ==
  /\ Len(t) = Len(g.order)
  /\ \A id \in DOMAIN g.nodes : Count(id, t) = 1

RECURSIVE TourLoopFrom(_)
TourLoopFrom(s) == IF s.pc = "tour" THEN TourLoopFrom(nearestNeighborTour(s)) ELSE s

\* the tour nearestNeighborTour(graph, start, t) returns
TourFrom(s, start, t) ==
  TourLoopFrom(nearestNeighborTourEntry([ s EXCEPT !.tripType = t ], start)).tour

\* C1: on the graph of a non-empty list of POIs with distinct ids, the tour
\* of nearestNeighborTour has as many entries as there are POIs and holds
\* every POI id exactly once: the tour optimizeTrip builds from its start
\* node, and the tour from any start node for any trip type.
C1_TourVisitsEveryPOIOnce ==
  /\ TourBuilt => Hamiltonian(tour, graph)
  /\ pc = "idle" =>
       \A start \in DOMAIN graph.nodes, t \in TripTypes :
         Hamiltonian(TourFrom(St, start, t), graph)

\* a call has built a tour of three or more POIs that is not the input order
C1_Witness ==
  /\ pc = "done"
  /\ Len(tour) >= 3
  /\ tour # graph.order
  /\ Hamiltonian(tour, graph)

\* C2: for days >= 1, organizeByDays (the partition walk, balanceDays and
\* balanceUnevenDays) returns, with exactly `days` buckets that together hold
\* every POI of the tour as often as the tour does and nothing else.
C2_BucketsPartitionTour ==
  /\ (days >= 1 /\ Len(graph.order) > 0) => pc # "threw"
  /\ (days >= 1 /\ pc = "return") =>
       /\ Len(dailyItineraries) = days
       /\ \A id \in DOMAIN graph.nodes \cup Range(Flatten(dailyItineraries)) :
            Count(id, Flatten(dailyItineraries)) = Count(id, tour)

\* organizeByDays has returned after merging buckets and moving a POI
C2_Witness ==
  /\ pc = "return"
  /\ days >= 1
  /\ merges # <<>>
  /\ moves # <<>>
  /\ Len(dailyItineraries) = days

\* the call has returned the object {dailyItineraries, metadata}
Returned == pc = "done" /\ result.kind = "object"

\* C3: in the itinerary optimizeTrip returns, every bucket is a contiguous
\* slice of the tour and the buckets concatenated in day order are the tour.
C3_BucketsAreSlicesOfTour ==
  Returned => Flatten(dailyItineraries) = tour

\* C4: a second optimizeTrip call with the same POIs, days and trip type
\* returns what the first call returned: the same buckets of the same
\* annotated records and the same metadata.
C4_RerunReturnsTheSame ==
  (pc = "done" /\ previous # <<>>) =>
     /\ previous[Len(previous)].days = days
     /\ previous[Len(previous)].tripType = tripType
     /\ result = previous[Len(previous)].result

\* a second call with the same arguments has returned an itinerary of at
\* least two POIs in which balancing moved a POI
C4_Witness ==
  /\ Returned
  /\ previous # <<>>
  /\ Len(tour) >= 2
  /\ moves # <<>>
  /\ result = previous[1].result

\* a record as it is before any call: without annotations
FreshPOI(poi) ==
  [ poi EXCEPT !.travelTimeToNext = Undefined, !.nextNodeScore = <<>>,
               !.importance = Undefined, !.timeRequired = Undefined ]

\* the graph of freshly created records of the same POIs
FreshGraph(g) ==
  [ g EXCEPT !.nodes = [ id \in DOMAIN g.nodes |-> FreshPOI(g.nodes[id]) ] ]

\* what optimizeTrip(days, tripType) returns on fresh records
FreshRun(d, t) == optimizeTrip([ St EXCEPT !.graph = FreshGraph(graph) ], d, t)

\* the itinerary and the annotation values of a result
Annotations(r) ==
  IF r.kind # "object" THEN << r >>
  ELSE << r.metadata,
          [ d \in 1..Len(r.dailyItineraries) |->
              [ j \in 1..Len(r.dailyItineraries[d]) |->
                  LET poi == r.dailyItineraries[d][j]
                  IN  [ id |-> poi.id, travelTimeToNext |-> poi.travelTimeToNext,
                        importance |-> poi.importance,
                        timeRequired |-> poi.timeRequired ] ] ] >>

\* C5: a later call on records an earlier call has annotated returns the
\* itinerary and the annotation values (travelTimeToNext, importance,
\* timeRequired) it would return on freshly created records.
C5_LaterCallEqualsFreshCall ==
  (pc = "done" /\ previous # <<>>) =>
     Annotations(result) = Annotations(FreshRun(days, tripType).result)

\* C6: on an empty POI set optimizeTrip returns the object of the non-empty
\* case: dailyItineraries of `days` empty buckets and metadata with
\* totalPOIs = 0.
C6_EmptyResultHasMetadata ==
  (pc = "done" /\ Len(graph.order) = 0) =>
     /\ result.kind = "object"
     /\ Len(result.dailyItineraries) = days
     /\ \A d \in 1..days : result.dailyItineraries[d] = <<>>
     /\ result.metadata.totalPOIs = 0

\* the ids of a bucket of records
Ids(bucket) == [ j \in 1..Len(bucket) |-> bucket[j].id ]

\* C7: with days = 1 and at least one POI the call returns an itinerary of
\* a single bucket, and that bucket holds every POI.
C7_OneDayHoldsEveryPOI ==
  (days = 1 /\ Len(graph.order) > 0 /\ pc \in { "done", "threw" }) =>
     /\ Returned
     /\ Len(result.dailyItineraries) = 1
     /\ \A id \in DOMAIN graph.nodes :
          Count(id, Ids(result.dailyItineraries[1])) = 1

\* a one-day call on three or more POIs has returned
C7_Witness ==
  /\ Returned
  /\ days = 1
  /\ Len(graph.order) >= 3
  /\ Len(result.dailyItineraries[1]) = Len(graph.order)

\* weights.relevance * (relevance / 5) + weights.rating * (rating / 5) with
\* the rating the POI carries, times 500
ClaimedStartScore(node, t) ==
  getTripTypeWeights(t).relevance * RelevanceOf(node, t) * 10
    + getTripTypeWeights(t).rating * node.rating

\* the first position of the node order whose node has the highest claimed
\* start score
FirstMaximum(g, t) ==
  CHOOSE j \in 1..Len(g.order) :
    /\ \A m \in 1..Len(g.order) :
         ClaimedStartScore(g.nodes[g.order[m]], t)
           <= ClaimedStartScore(g.nodes[g.order[j]], t)
    /\ \A m \in 1..(j - 1) :
         ClaimedStartScore(g.nodes[g.order[m]], t)
           < ClaimedStartScore(g.nodes[g.order[j]], t)

\* C8: when every POI carries a rating in 0..5, the start node is the
\* first node in enumeration order that maximizes
\* weights.relevance * (relevance / 5) + weights.rating * (rating / 5).
C8_StartIsFirstMaximum ==
  (pc # "idle" /\ Len(graph.order) > 0
     /\ \A id \in DOMAIN graph.nodes : graph.nodes[id].rating \in 0..50) =>
     bestStartNode = graph.order[FirstMaximum(graph, tripType)]

\* the arguments violate the contract: negative days or a POI whose
\* visitDuration is not positive
ContractViolation ==
  \/ days < 0
  \/ \E id \in DOMAIN graph.nodes : graph.nodes[id].visitDuration <= 0

\* C9: a call with a contract-violating argument returns no itinerary: it
\* ends in an InvalidArgument error, before any tour or bucket is built.
C9_ContractViolationIsRejected ==
  (pc # "idle" /\ ContractViolation) =>
     /\ pc # "done"
     /\ pc = "threw" => (error = "InvalidArgument" /\ tour = <<>>)

\* what optimizeTrip returns for 'Historical' on the same POIs and days
HistoricalRun == FreshRun(days, "Historical")

\* C10 as stated: with an unrecognized trip type optimizeTrip returns the
\* tour and the buckets it returns with 'Historical'.
C10_UnknownEqualsHistorical ==
  (pc = "done" /\ tripType \notin KnownTripTypes /\ Len(graph.order) > 0) =>
     /\ tour = HistoricalRun.tour
     /\ dailyItineraries = HistoricalRun.dailyItineraries

\* C10 amended: an unrecognized trip type is scored with Historical's
\* keyword table but weighted with the default weights (0.6, 0.3, 0.1),
\* which are not Historical's (0.4, 0.5, 0.1).
C10_UnknownUsesHistoricalKeywordsDefaultWeights ==
  (pc # "idle" /\ tripType \notin KnownTripTypes) =>
     /\ getTripTypeWeights(tripType)
          = [ travelTime |-> 6, relevance |-> 3, rating |-> 1 ]
     /\ getTripTypeWeights(tripType) # getTripTypeWeights("Historical")
     /\ \A id \in DOMAIN graph.nodes :
          calculatePOIRelevance(graph.nodes[id], tripType)
            = calculatePOIRelevance(graph.nodes[id], "Historical")

\* a call with an unrecognized trip type has returned, a POI matches
\* Historical keywords, and the tour is not the tour of 'Historical'
C10_Witness ==
  /\ Returned
  /\ tripType \notin KnownTripTypes
  /\ \E id \in DOMAIN graph.nodes :
       /\ ~Truthy(graph.nodes[id].relevanceScore)
       /\ calculatePOIRelevance(graph.nodes[id], tripType) > 1
  /\ tour # HistoricalRun.tour

\* the documented weight table as (travelTime, relevance, rating), in tenths
ClaimedWeights(t) ==
  CASE t = "Historical" -> << 4, 5, 1 >>
    [] t = "Religious"  -> << 3, 6, 1 >>
    [] t = "Nature"     -> << 5, 3, 2 >>
    [] t = "Adventure"  -> << 3, 5, 2 >>
    [] t = "Romantic"   -> << 4, 3, 3 >>
    [] OTHER            -> << 6, 3, 1 >>

\* C11: the weights a call works with are those of the documented table for
\* its trip type, (0.6, 0.3, 0.1) for an unrecognized one, and the three
\* weights sum to 1.0.
C11_WeightsAreTheDocumentedTable ==
  pc # "idle" =>
     LET weights == getTripTypeWeights(tripType)
     IN  /\ << weights.travelTime, weights.relevance, weights.rating >>
              = ClaimedWeights(tripType)
         /\ weights.travelTime + weights.relevance + weights.rating = 10

\* a call with an unrecognized trip type has built a tour of two or more
\* POIs with the default weights
C11_Witness ==
  /\ Returned
  /\ tripType \notin KnownTripTypes
  /\ Len(tour) >= 2
  /\ getTripTypeWeights(tripType).travelTime = 6

\* C12: in the returned itinerary the last POI of every non-empty bucket
\* carries no travelTimeToNext, and every POI carries importance and
\* timeRequired.
C12_BucketEndsCarryNoTravelTime ==
  Returned =>
     \A d \in 1..Len(result.dailyItineraries) :
       LET bucket == result.dailyItineraries[d]
       IN  /\ bucket # <<>> => bucket[Len(bucket)].travelTimeToNext = Undefined
           /\ \A j \in 1..Len(bucket) :
                /\ bucket[j].importance # Undefined
                /\ bucket[j].timeRequired # Undefined

\* C13: for a non-empty POI set, metadata.startingPoint names the POI the
\* itinerary begins with: the start node is the first POI of the tour and the
\* first POI of the first bucket, and metadata.totalPOIs is the number of
\* POIs in all buckets together.
C13_StartingPointBeginsItinerary ==
  (Returned /\ Len(graph.order) > 0) =>
     /\ tour[1] = bestStartNode
     /\ result.metadata.startingPoint = graph.nodes[tour[1]].name
     /\ result.dailyItineraries[1] # <<>>
     /\ result.dailyItineraries[1][1].id = bestStartNode
     /\ result.dailyItineraries[1][1].name = result.metadata.startingPoint
     /\ result.metadata.totalPOIs = Len(Flatten(result.dailyItineraries))

\* the edges from node a to node b in the adjacency list of a
EdgesTo(g, a, b) ==
  { j \in 1..Len(g.adjacencyList[a]) : g.adjacencyList[a][j].nodeId = b }

\* C14: the graph buildGraph makes of POIs with distinct ids is complete and
\* weight-symmetric: the adjacency list of every node holds exactly one edge
\* to each other node and none to itself, the edge from a to b carries the
\* distance and the travel time of the edge from b to a, also when the
\* distance is the 1 km fallback, and the graph of no POIs is empty.
C14_GraphIsCompleteAndSymmetric ==
  /\ DOMAIN graph.adjacencyList = DOMAIN graph.nodes
  /\ Cardinality(DOMAIN graph.nodes) = Len(graph.order)
  /\ \A a \in DOMAIN graph.nodes :
       /\ Len(graph.adjacencyList[a]) = Len(graph.order) - 1
       /\ EdgesTo(graph, a, a) = {}
       /\ \A b \in DOMAIN graph.nodes \ { a } :
            /\ Cardinality(EdgesTo(graph, a, b)) = 1
            /\ \A j \in EdgesTo(graph, a, b), m \in EdgesTo(graph, b, a) :
                 /\ graph.adjacencyList[a][j].distance
                      = graph.adjacencyList[b][m].distance
                 /\ graph.adjacencyList[a][j].travelTime
                      = graph.adjacencyList[b][m].travelTime
                 /\ (graph.nodes[a].location.lat = Undefined
                      \/ graph.nodes[b].location.lat = Undefined)
                     => graph.adjacencyList[a][j].distance = 1

\* a call has returned on the graph of three POIs, one of them without
\* coordinates, which has edges of the fallback distance and longer edges
C14_Witness ==
  /\ Returned
  /\ Len(graph.order) = 3
  /\ \E a, b, c \in DOMAIN graph.nodes :
       /\ graph.nodes[a].location.lat = Undefined
       /\ graph.nodes[b].location.lat # Undefined
       /\ graph.nodes[c].location.lat # Undefined
       /\ b # c
       /\ \E j \in EdgesTo(graph, b, a) : graph.adjacencyList[b][j].distance = 1
       /\ \E j \in EdgesTo(graph, b, c) : graph.adjacencyList[b][j].distance > 1

\* the nodes whose location has a missing coordinate
MissingCoordinates(g) ==
  { id \in DOMAIN g.nodes : ~ValidPoint(g.nodes[id].location) }

WithoutAnnotations(poi) ==
  [ poi EXCEPT !.travelTimeToNext = Undefined, !.importance = Undefined,
               !.timeRequired = Undefined ]

\* the record with this id as the caller created it
Original(id) == CHOOSE p \in samplePOIs : p.id = id

\* C16: a call changes nothing on the POI records but travelTimeToNext,
\* importance and timeRequired: every other field keeps its value and no
\* other field is added.
C16_OnlyDocumentedAnnotationsWritten ==
  Returned =>
     \A id \in DOMAIN graph.nodes :
       WithoutAnnotations(graph.nodes[id]) = WithoutAnnotations(Original(id))

\* the start node optimizeTrip chooses on the same POIs for 'Historical'
HistoricalStart == BestStartNode(graph, "Historical")

\* the relevance of the node is the same for 'Historical' and 'Romantic'
SameRelevance(id) ==
  RelevanceOf(graph.nodes[id], "Historical") = RelevanceOf(graph.nodes[id], "Romantic")

\* the ranking by rating and the ranking by relevance diverge, in the
\* strongest sense: every POI carries a rating in 0.1..5 and has the same
\* relevance for both categories, one POI is strictly the most relevant and
\* another POI is strictly the best rated
RankingsDiverge ==
  /\ \A id \in DOMAIN graph.nodes :
       graph.nodes[id].rating \in 1..50 /\ SameRelevance(id)
  /\ \E x, y \in DOMAIN graph.nodes :
       /\ x # y
       /\ \A z \in DOMAIN graph.nodes \ { x } :
            RelevanceOf(graph.nodes[x], "Romantic") > RelevanceOf(graph.nodes[z], "Romantic")
       /\ \A z \in DOMAIN graph.nodes \ { y } :
            graph.nodes[y].rating > graph.nodes[z].rating

\* C17 as stated: whenever the ranking by rating and the ranking by
\* relevance diverge, 'Romantic' starts at another node than 'Historical'.
C17_DivergenceChangesStart ==
  (Returned /\ tripType = "Romantic" /\ RankingsDiverge) =>
     bestStartNode # HistoricalStart

\* C17 amended: 'Romantic' starts at another node than 'Historical' only
\* when the rankings diverge: if the two start nodes differ and each has the
\* same relevance for both categories, the start node of 'Historical' is
\* strictly more relevant and the start node of 'Romantic' is strictly
\* better rated (the rating as the code reads it).
C17_StartsDifferOnlyOnDivergence ==
  (pc # "idle" /\ tripType = "Romantic" /\ Len(graph.order) > 0
     /\ bestStartNode # HistoricalStart
     /\ SameRelevance(bestStartNode) /\ SameRelevance(HistoricalStart)) =>
     /\ RelevanceOf(graph.nodes[HistoricalStart], "Historical")
          > RelevanceOf(graph.nodes[bestStartNode], "Romantic")
     /\ RatingOf(graph.nodes[bestStartNode]) > RatingOf(graph.nodes[HistoricalStart])

\* a 'Romantic' call has returned whose start node is not the start node of
\* 'Historical', on POIs whose relevance is the same for both categories
C17_Witness ==
  /\ Returned
  /\ tripType = "Romantic"
  /\ RankingsDiverge
  /\ bestStartNode # HistoricalStart

\* C18: a precomputed relevanceScore is used verbatim, also when it is 0:
\* the importance written on a POI that carries one is
\* 0.7 * relevanceScore + 0.3 * rating, with no keyword score in its place.
C18_PrecomputedRelevanceUsedVerbatim ==
  Returned =>
     \A d \in 1..Len(result.dailyItineraries) :
       \A j \in 1..Len(result.dailyItineraries[d]) :
         LET poi == result.dailyItineraries[d][j]
         IN  poi.relevanceScore # Undefined =>
               poi.importance = 70 * poi.relevanceScore + 3 * RatingOf(poi)

\* C19: the importance written on every POI of the itinerary returned for
\* a trip type is 0.7 * relevance + 0.3 * rating with the relevance of the
\* POI for that trip type (the precomputed relevanceScore, else the keyword
\* score for that trip type).
C19_ImportanceUsesRequestedCategory ==
  Returned =>
     \A d \in 1..Len(result.dailyItineraries) :
       \A j \in 1..Len(result.dailyItineraries[d]) :
         result.dailyItineraries[d][j].importance
           = 70 * RelevanceOf(result.dailyItineraries[d][j], tripType)
               + 3 * RatingOf(result.dailyItineraries[d][j])

\* weights.travelTime * 1/(1 + travelTime) + weights.relevance * relevance/10
\* + weights.rating * rating/5 with the rating the POI carries, as a fraction
ClaimedNextScore(edge, poi, t) ==
  LET weights == getTripTypeWeights(t)
      tt == UnitsPerHour + edge.travelTime
  IN  << weights.travelTime * UnitsPerHour * 50
           + weights.relevance * RelevanceOf(poi, t) * 5 * tt
           + weights.rating * poi.rating * tt,
         500 * tt >>

\* the positions in the adjacency list of cur that lead to an unvisited node
\* which has the highest claimed score and comes first among those that have
FirstBestNeighbours(g, cur, vis, t) ==
  LET edges == g.adjacencyList[cur]
      unvisited == { m \in 1..Len(edges) : edges[m].nodeId \notin vis }
      score(m) == ClaimedNextScore(edges[m], g.nodes[edges[m].nodeId], t)
  IN  { j \in unvisited :
          /\ \A m \in unvisited : ~FracGreater(score(m), score(j))
          /\ \A m \in unvisited : m < j => FracGreater(score(j), score(m)) }

\* C20: when every POI carries a rating in 0..5, findBestNextNode returns
\* the unvisited neighbour with the highest composite score, the first in
\* the adjacency list among equals; it never returns a visited node and
\* returns no node only when every neighbour is visited.
C20_NextNodeIsFirstBestUnvisited ==
  (Returned /\ \A id \in DOMAIN graph.nodes : graph.nodes[id].rating \in 0..50) =>
     /\ \A j \in 2..Len(tour) :
          LET before == { tour[m] : m \in 1..(j - 1) }
          IN  /\ tour[j] \notin before
              /\ \E m \in FirstBestNeighbours(graph, tour[j - 1], before, tripType) :
                   graph.adjacencyList[tour[j - 1]][m].nodeId = tour[j]
     /\ Range(tour) = DOMAIN graph.nodes

\* the travel time of the graph edge from a to b
EdgeTravelTime(g, a, b) ==
  g.adjacencyList[a][CHOOSE j \in EdgesTo(g, a, b) : TRUE].travelTime

\* C21: once nearestNeighborTour has returned, the travelTimeToNext written
\* on every tour POI but the last is the travel time of the graph edge from
\* that POI to the next POI of the tour.
C21_TravelTimeToNextIsEdgeTravelTime ==
  TourBuilt =>
     \A j \in 1..(Len(tour) - 1) :
       graph.nodes[tour[j]].travelTimeToNext
         = EdgeTravelTime(graph, tour[j], tour[j + 1])

\* nearestNeighborTour has returned a tour of three POIs whose two legs take
\* different times
C21_Witness ==
  /\ pc = "organize"
  /\ Len(tour) = 3
  /\ graph.nodes[tour[1]].travelTimeToNext # graph.nodes[tour[2]].travelTimeToNext
  /\ graph.nodes[tour[2]].travelTimeToNext = EdgeTravelTime(graph, tour[2], tour[3])

\* the buckets closed so far after a step of the walk: after the last step
\* the current bucket has been pushed and is the last bucket
ClosedAfterStep ==
  IF i = Len(tour) THEN SubSeq(dailyItineraries', 1, Len(dailyItineraries') - 1)
  ELSE dailyItineraries'

\* a step of the partition walk as claimed, for days >= 1: the POI tour[i]
\* opens a new bucket exactly when
\*   currentDayTime + poiTime > (totalTime / days) * min(1.3, 1 + importance/10)
\* and the current bucket is not empty
WalkStepAsClaimed ==
  LET id == tour[i]
      poiTime == graph'.nodes[id].timeRequired
      factor == Min(1300, 1000 + graph'.nodes[id].importance)
      exceeds == (currentDayTime + poiTime) * days * 1000 > totalTime * factor
  IN  /\ IF exceeds /\ currentDay # <<>>
         THEN /\ ClosedAfterStep = Append(dailyItineraries, currentDay)
              /\ currentDay' = << id >>
              /\ currentDayTime' = poiTime
         ELSE /\ ClosedAfterStep = dailyItineraries
              /\ currentDay' = Append(currentDay, id)
              /\ currentDayTime' = currentDayTime + poiTime
      /\ i = Len(tour) =>
           /\ dailyItineraries'[Len(dailyItineraries')] = currentDay'
           /\ \A d \in 1..Len(dailyItineraries') : dailyItineraries'[d] # <<>>
           /\ Flatten(dailyItineraries') = tour

\* C22: the partition walk closes the current bucket and starts a new one
\* with the POI exactly when adding it exceeds the budget
\* avgTimePerDay * min(1.3, 1 + importance/10) and the current bucket holds a
\* POI, and appends the POI otherwise; the buckets it produces are non-empty
\* and are consecutive slices of the tour.
C22_WalkSplitsExactlyOnBudget ==
  [][(pc = "walk" /\ days >= 1) => WalkStepAsClaimed]_vars

\* the walk has just ended with two buckets, one of them of two POIs
C22_Witness ==
  /\ pc = "balance"
  /\ days >= 1
  /\ merges = <<>>
  /\ Len(dailyItineraries) = 2
  /\ Flatten(dailyItineraries) = tour
  /\ \E d \in 1..2 : Len(dailyItineraries[d]) = 2
  /\ \A d \in 1..2 : dailyItineraries[d] # <<>>

\* the pair (a, b) comes before the pair (c, e) in the scan of the pairs
ScannedBefore(a, b, c, e) == a < c \/ (a = c /\ b < e)

\* a < b is the first pair in scan order with the smallest combined count
FirstSmallestPair(buckets, a, b) ==
  /\ a < b
  /\ \A c, e \in 1..Len(buckets) :
       c < e =>
         /\ Len(buckets[a]) + Len(buckets[b]) <= Len(buckets[c]) + Len(buckets[e])
         /\ ScannedBefore(c, e, a, b) =>
              Len(buckets[a]) + Len(buckets[b]) < Len(buckets[c]) + Len(buckets[e])

\* after is before with bucket b appended to bucket a and removed
MergedInto(before, after, a, b) ==
  /\ Len(after) = Len(before) - 1
  /\ \A d \in 1..Len(after) :
       after[d] = IF d = a THEN before[a] \o before[b]
                  ELSE IF d < b THEN before[d]
                  ELSE before[d + 1]

\* C23: while there are fewer buckets than days, balanceDays appends an
\* empty bucket; while there are more (days >= 1), a step merges the first
\* pair in scan order with the smallest combined POI count: the second
\* bucket's POIs are appended to the first, the second bucket is removed and
\* no other bucket changes.
C23_ReconciliationFillsAndMergesSmallest ==
  [][/\ (pc = "balance" /\ Len(dailyItineraries) < days) =>
          dailyItineraries' = Append(dailyItineraries, <<>>)
     /\ (pc = "balance" /\ Len(dailyItineraries) > days /\ days >= 1) =>
          \E a, b \in 1..Len(dailyItineraries) :
            /\ FirstSmallestPair(dailyItineraries, a, b)
            /\ MergedInto(dailyItineraries, dailyItineraries', a, b)]_vars

\* balanceDays has merged a pair of buckets other than the first two and
\* has reached the requested number of buckets
C23_Witness ==
  /\ pc = "balance"
  /\ days >= 1
  /\ merges # <<>>
  /\ merges[Len(merges)] # << 1, 2 >>
  /\ Len(dailyItineraries) = days

\* the time of bucket d: visit and travel time of its POIs
BucketTime(d) == DayTime(graph.nodes, dailyItineraries[d])

\* the sum of the bucket times
AllBucketsTime == SumSeq([ d \in 1..Len(dailyItineraries) |-> BucketTime(d) ])

\* the time of bucket d is above 1.3 times the mean bucket time
AboveMean(d) == BucketTime(d) * Len(dailyItineraries) * 10 > AllBucketsTime * 13

\* the time of bucket d is below 0.8 times the mean bucket time
BelowMean(d) == BucketTime(d) * Len(dailyItineraries) * 10 < AllBucketsTime * 8

\* position p holds the first POI of lowest importance of the bucket
FirstLeastImportant(bucket, p) ==
  \A q \in 1..Len(bucket) :
    /\ graph.nodes[bucket[p]].importance <= graph.nodes[bucket[q]].importance
    /\ q < p => graph.nodes[bucket[p]].importance < graph.nodes[bucket[q]].importance

\* the buckets other than k whose time is below 0.8 times the mean
Receivers ==
  { j \in 1..Len(dailyItineraries) : j # k /\ BelowMean(j) }

\* C24: in a step of the rebalancing sweep the examined bucket gives up a
\* POI only if its time is above 1.3 times the mean and it holds two or
\* more POIs; the POI removed is the first of lowest importance; it goes to a
\* bucket of lowest time among the other buckets below 0.8 times the mean;
\* without such a bucket nothing moves.
C24_SweepMovesLeastImportantToLeastLoaded ==
  [][pc = "sweep" =>
       IF AboveMean(k) /\ Len(dailyItineraries[k]) >= 2 /\ Receivers # {}
       THEN \E p \in 1..Len(dailyItineraries[k]), j \in Receivers :
              /\ FirstLeastImportant(dailyItineraries[k], p)
              /\ \A m \in Receivers : BucketTime(j) <= BucketTime(m)
              /\ dailyItineraries' =
                   [ dailyItineraries EXCEPT
                       ![k] = RemoveAt(@, p),
                       ![j] = Append(@, dailyItineraries[k][p]) ]
       ELSE dailyItineraries' = dailyItineraries]_vars

\* the sweep over three buckets has moved a POI other than the first POI
\* of the tour
C24_Witness ==
  /\ pc = "return"
  /\ Len(dailyItineraries) = 3
  /\ moves # <<>>
  /\ \E m \in 1..Len(moves) :
       moves[m].poi # tour[1] /\ graph.nodes[moves[m].poi].importance # Undefined

\* C25: rebalancing is one sweep: the buckets are examined once each, in
\* order, every bucket gives up at most one POI, so there are at most as
\* many moves as buckets, and a bucket is not examined again after its move.
C25_SweepExaminesEachBucketOnce ==
  /\ [](/\ pc = "sweep" => k \in 1..Len(dailyItineraries)
        /\ Len(moves) <= Len(dailyItineraries)
        /\ \A m \in 1..Len(moves) :
             /\ pc = "sweep" => moves[m].from < k
             /\ \A q \in 1..(m - 1) : moves[q].from < moves[m].from)
  /\ [][pc = "sweep" => (k' = k + 1 /\ Len(moves') <= Len(moves) + 1)]_vars

\* the sweep has ended and a bucket that gave up a POI is still above 1.3
\* times the mean, holds two or more POIs and could give to another bucket
C25_Witness ==
  /\ pc = "return"
  /\ \E m \in 1..Len(moves) :
       /\ AboveMean(moves[m].from)
       /\ Len(dailyItineraries[moves[m].from]) >= 2
       /\ \E j \in 1..Len(dailyItineraries) : j # moves[m].from /\ BelowMean(j)

\* a step of a call that is under way
Step ==
  \/ TourLoop
  \/ OrganizeEntry
  \/ Walk
  \/ Fill
  \/ Merge
  \/ UnevenEntry
  \/ Sweep
  \/ Return

\* the places of a call that has not thrown
Phases == { "tour", "organize", "walk", "balance", "sweep", "return", "done" }

\* what is left of a call: the phases still to come, and in a loop the
\* iterations still to come
Variant ==
  CASE pc = "tour" -> 600 + (Len(graph.order) - Len(tour))
    [] pc = "organize" -> 500
    [] pc = "walk" -> 400 + (Len(tour) + 1 - i)
    [] pc = "balance" -> 300 + Abs(Len(dailyItineraries) - days)
    [] pc = "sweep" -> 200 + (Len(dailyItineraries) + 1 - k)
    [] pc = "return" -> 100
    [] OTHER -> 0

\* the partition walk of organizeByDays run to its end
RECURSIVE WalkToEnd(_)
WalkToEnd(s) == IF s.pc = "walk" THEN WalkToEnd(organizeByDays(s)) ELSE s

\* the number of buckets the partition walk makes of the tour
PartitionBuckets ==
  Len(WalkToEnd(organizeByDaysEntry(St, "Historical")).dailyItineraries)

\* C26: for days >= 1 a call on a non-empty graph terminates: every step of
\* the tour loop selects a node, so the loop ends after |nodes| - 1
\* selections with all nodes visited; every merge step removes one bucket,
\* so the merge loop ends after (partition buckets - days) merges; and a
\* call under way can always take a step, never throws, and every step
\* brings it nearer to its return.
C26_CallTerminates ==
  /\ [][(pc = "tour" /\ days >= 1) =>
          (Len(tour') = Len(tour) + 1 /\ Cardinality(visited') = Len(tour'))]_vars
  /\ []((TourBuilt /\ days >= 1) =>
          (Len(tour) - 1 = Len(graph.order) - 1 /\ visited = DOMAIN graph.nodes))
  /\ [][(pc = "balance" /\ Len(dailyItineraries) > days /\ days >= 1) =>
          (Len(dailyItineraries') = Len(dailyItineraries) - 1
             /\ Len(merges') = Len(merges) + 1)]_vars
  /\ []((pc \in { "sweep", "return", "done" } /\ days >= 1 /\ Len(graph.order) > 0) =>
          Len(merges) = (IF PartitionBuckets > days THEN PartitionBuckets - days ELSE 0))
  /\ []((pc \notin { "idle", "done" } /\ days >= 1) =>
          (pc # "threw" /\ Variant > 0 /\ StepOf(St).pc \in Phases))
  /\ [][(pc # "idle" /\ days >= 1) => (Step /\ Variant' < Variant)]_vars

\* a call has returned after a tour of three POIs and a merge
C26_Witness ==
  /\ Returned
  /\ days >= 1
  /\ Len(tour) = 3
  /\ Len(merges) = PartitionBuckets - days
  /\ Len(merges) >= 1

\* the keywords of a category's list that the lower-cased text contains
ContainedKeywords(text, category) ==
  { kw \in Range(keywords[category]) : kw \in LowerIncludes[text] }

\* the relevance as documented, a missing text counting as empty and an
\* unknown category as Historical
ClaimedRelevance(poi, category) ==
  LET name == IF poi.name = NoText THEN "" ELSE poi.name
      description == IF poi.description = NoText THEN "" ELSE poi.description
      list == IF category \in KnownTripTypes THEN category ELSE "Historical"
  IN  1 + 2 * Cardinality(ContainedKeywords(name, list))
        + 1 * Cardinality(ContainedKeywords(description, list))

\* the POIs of the graph, and each of them without its name
WithAndWithoutName ==
  { graph.nodes[id] : id \in DOMAIN graph.nodes }
    \cup { [ graph.nodes[id] EXCEPT !.name = NoText ] : id \in DOMAIN graph.nodes }

\* C27: calculatePOIRelevance(poi, category) is 1 + 2 * (keywords of the
\* category in the lower-cased name) + 1 * (keywords of the category in the
\* lower-cased description), a missing name or description counting as
\* empty and an unknown category as Historical; it is an integer >= 1.
C27_RelevanceCountsKeywords ==
  Returned =>
    \A poi \in WithAndWithoutName :
      /\ calculatePOIRelevance(poi, tripType) = ClaimedRelevance(poi, tripType)
      /\ calculatePOIRelevance(poi, tripType) \in Nat \ { 0 }

\* a call with an unknown category has returned on a graph with a POI that
\* has no description and a POI whose name and description hold keywords
C27_Witness ==
  /\ Returned
  /\ tripType \notin KnownTripTypes
  /\ \E id \in DOMAIN graph.nodes : graph.nodes[id].description = NoText
  /\ \E id \in DOMAIN graph.nodes :
       /\ ContainedKeywords(graph.nodes[id].name, "Historical") # {}
       /\ ContainedKeywords(graph.nodes[id].description, "Historical") # {}
       /\ calculatePOIRelevance(graph.nodes[id], tripType) = 8

\* C28: in one sweep of balanceUnevenDays every POI changes bucket at most
\* once: a POI moved into a bucket is not moved again, onward or back.
C28_NoPOIMovesTwiceInASweep ==
  \A m, q \in 1..Len(moves) : moves[m].poi = moves[q].poi => m = q

\* the place of a request in the order of the sources
RequestRank(request) ==
  CASE request = "geocode" -> 1
    [] request = "primary" -> 2
    [] request = "fallback" -> 3

\* a request that failed or found nothing
CameToNothing(sent) == sent.outcome \in { "none", "error", "timeout" }

\* the place of a call of getPOIs: a request in flight comes before the
\* requests after it, and all before the return
FetchRank(at) ==
  CASE at = "idle" -> 0
    [] at = "geocode" -> 1
    [] at = "primary" -> 2
    [] at = "fallback" -> 3
    [] at = "resolved" -> 4

IsNormalized(word) ==
  /\ \A n \in 1..Len(word) : word[n] # "B"
  /\ word # <<>> => (word[1] # " " /\ word[Len(word)] # " ")

NormalizedWords ==
  { word \in UNION { [ 1..n -> { "a", "b", " " } ] : n \in 0..MaxWordLen } :
      IsNormalized(word) }

\* the trie path of the word ends in a node marked isEndOfWord
EndsWord(t, word) ==
  /\ HasPath(t.nodes, word, 1)
  /\ t.nodes[word].isEndOfWord

\* C30: after any inserts and clears a normalized word is a key of
\* placesMap exactly if its trie path ends in a node marked isEndOfWord, and
\* then the node's metadata is the map's value; an insert sets the value of
\* its normalized word to its metadata and leaves the other keys alone;
\* after clear both are empty and searchPrefix finds nothing.
C30_TrieAndPlacesMapAgree ==
  /\ \A word \in NormalizedWords :
       /\ word \in DOMAIN trie.placesMap <=> EndsWord(trie, word)
       /\ word \in DOMAIN trie.placesMap =>
            trie.nodes[word].metadata = trie.placesMap[word]
  /\ \A word \in Words \ { <<>> }, metadata \in Metadata :
       LET after == insert(trie, word, metadata)
       IN  \E key \in NormalizedWords :
             /\ key = trim(toLowerCase(word))
             /\ DOMAIN after.placesMap = DOMAIN trie.placesMap \cup { key }
             /\ after.placesMap[key] = metadata
             /\ \A other \in DOMAIN trie.placesMap \ { key } :
                  after.placesMap[other] = trie.placesMap[other]
  /\ LET after == clear(trie)
     IN  /\ DOMAIN after.placesMap = {}
         /\ \A path \in DOMAIN after.nodes : ~ after.nodes[path].isEndOfWord
         /\ \A prefix \in Words : searchPrefix(after, prefix, 10) = <<>>

\* the blank word and a two-letter word are keys, the node between the root
\* and the two-letter word exists and ends no word
C30_Witness ==
  /\ <<>> \in DOMAIN trie.placesMap
  /\ trie.placesMap[<<>>] = "place"
  /\ << "b", "a" >> \in DOMAIN trie.placesMap
  /\ << "b" >> \in DOMAIN trie.nodes
  /\ << "b" >> \notin DOMAIN trie.placesMap
  /\ searchPrefix(trie, << " ", "B" >>, 10)
       = << [ name |-> << "b", "a" >>, metadata |-> trie.placesMap[<< "b", "a" >>] ] >>

====
